---- MODULE Spec2Model ----
(***************************************************************************)
(* Tendazilla: the tender scraper (tools/scraper.py).                      *)
(*                                                                         *)
(* The model covers RateLimiter.wait_if_needed, the orchestrator           *)
(* TenderScraper.scrape_web with its strategy cascade, the post-processor  *)
(* _post_process_tenders and the sample fallback _get_sample_tenders.      *)
(*                                                                         *)
(* Strings are sequences of one-character strings, so that trimming,       *)
(* slicing and the date regular expression are computed character by       *)
(* character.  Time is counted in whole seconds.                           *)
(***************************************************************************)
EXTENDS Integers, Sequences, FiniteSets, TLC

(***************************************************************************)
(* Bounds of the model.                                                    *)
(***************************************************************************)
\* the clock never runs past this many seconds
MaxTime == 7
\* a strategy returns at most this many raw records
MaxRaw == 1
\* one network request takes 0..MaxLatency seconds
MaxLatency == 1
\* at most this many seconds pass between two scrape_web calls
MaxIdle == 1
\* the clock reading at construction of the scraper (time.time() is far from 0)
BootTime == 2
\* _post_process_tenders is handed at most this many records
MaxBatch == 2
\* send_email_multiple is given at most this many recipients
MaxRecipients == 2
\* an API item holds at most this many of the title aliases
MaxAliases == 2
\* at most this many selectors find elements in a rendered page
MaxMatching == 2
\* an inner source of the static page finds at most this many records
MaxFound == 2
\* a tender has at most this many requirements
MaxRequirements == 2
\* a company profile has at most this many past projects
MaxProjects == 2
\* a table has at most this many data rows
MaxDataRows == 2
\* a requirements string has at most this many characters
MaxReqLen == 3
\* a list of a JSON body holds at most this many items
MaxItems == 2
\* the browser strategies are called at most this many times
MaxBrowserCalls == 2

(***************************************************************************)
(* Program constants.                                                      *)
(***************************************************************************)
\* config.SCRAPING_MAX_RETRIES
SCRAPING_MAX_RETRIES == 3
\* config.RATE_LIMIT_DELAY_SECONDS
RATE_LIMIT_DELAY_SECONDS == 1
\* the number of candidate urls in api_patterns
NumApiPatterns == 8
\* a title shorter than this after trimming is discarded
MinTitleLen == 5
\* the number of entries of tender_selectors
NumSelectors == 13
\* _extract_title_from_api wants a title longer than this
MinApiTitleLen == 5
\* and cuts it to this length
MaxApiTitleLen == 200
\* table extraction: the first cell counts when longer than this,
MinFirstCellLen == 5
\* the second cell when longer than this,
MinSecondCellLen == 10
\* and a title of the first cell or of a table of the rendered page when
\* longer than this
MinTableTitleLen == 20
\* the score of a reply of the model that names none
DefaultAiScore == 50
\* the shares of the rule-based and of the AI score, in tenths
RuleTenths == 7
AiTenths == 3
\* a description longer than this is cut and given an ellipsis
MaxDescriptionLen == 500
\* time.sleep(2) between two navigation attempts
RetrySleep == 2
\* time.sleep(3) after a successful navigation
SettleSleep == 3
\* numerator of min_interval = 60.0 / requests_per_minute
SecondsPerMinute == 60

\* values of config.RATE_LIMIT_REQUESTS_PER_MINUTE the model runs with
RpmChoices == {30, 60}

(***************************************************************************)
(* Strings.                                                                *)
(***************************************************************************)
Min(a, b) == IF a <= b THEN a ELSE b

Rep(c, n) == [i \in 1..n |-> c]

Digits == {"0", "1", "2", "3", "4", "5", "6", "7", "8", "9"}

DateSeps == {"/", "-"}

Whitespace == {" ", "\t", "\n"}

\* s[:n]
Take(s, n) == SubSeq(s, 1, Min(n, Len(s)))

\* index of the first / last character that is not whitespace (0 if none)
FirstInk(s) ==
    IF \E i \in 1..Len(s) : s[i] \notin Whitespace
    THEN CHOOSE i \in 1..Len(s) :
            /\ s[i] \notin Whitespace
            /\ \A j \in 1..(i - 1) : s[j] \in Whitespace
    ELSE 0

LastInk(s) ==
    IF \E i \in 1..Len(s) : s[i] \notin Whitespace
    THEN CHOOSE i \in 1..Len(s) :
            /\ s[i] \notin Whitespace
            /\ \A j \in (i + 1)..Len(s) : s[j] \in Whitespace
    ELSE 0

\* str.strip()
Strip(s) == IF FirstInk(s) = 0 THEN <<>> ELSE SubSeq(s, FirstInk(s), LastInk(s))

AllDigits(s, from, n) ==
    /\ from + n - 1 <= Len(s)
    /\ \A i \in from..(from + n - 1) : s[i] \in Digits

IsSepAt(s, i) == i <= Len(s) /\ s[i] \in DateSeps

\* s[1..n] has the shape \d{a}[/-]\d{b}[/-]\d{c} with n = a + b + c + 2
ShapeAt(s, a, b, c) ==
    /\ AllDigits(s, 1, a)
    /\ IsSepAt(s, a + 1)
    /\ AllDigits(s, a + 2, b)
    /\ IsSepAt(s, a + b + 2)
    /\ AllDigits(s, a + b + 3, c)

\* the lengths (a, b, c) the two alternatives of the date pattern allow:
\* \d{1,2}[/-]\d{1,2}[/-]\d{2,4}  and  \d{4}[/-]\d{1,2}[/-]\d{1,2}
DateShapes ==
    ((1..2) \X (1..2) \X (2..4)) \cup ({4} \X (1..2) \X (1..2))

\* re.match(r'\d{1,2}[/-]\d{1,2}[/-]\d{2,4}|\d{4}[/-]\d{1,2}[/-]\d{1,2}', s):
\* the pattern is anchored at the start of s only
ReMatchDate(s) == \E sh \in DateShapes : ShapeAt(s, sh[1], sh[2], sh[3])

\* s matches one of the two date shapes from its first to its last character
FullDate(s) ==
    \E sh \in DateShapes :
        /\ ShapeAt(s, sh[1], sh[2], sh[3])
        /\ Len(s) = sh[1] + sh[2] + sh[3] + 2

(***************************************************************************)
(* Python values held in the fields of a raw record.  t is the type of    *)
(* the value ("absent": the key is missing or None), v its characters     *)
(* (for an int its decimal digits, for a list its elements).              *)
(***************************************************************************)
Absent == [t |-> "absent", v |-> <<>>]

Str(s) == [t |-> "str", v |-> s]

Num(ds) == [t |-> "int", v |-> ds]

\* bool(x)
Truthy(x) ==
    CASE x.t = "absent" -> FALSE
      [] x.t = "str" -> x.v # <<>>
      [] x.t = "int" -> x.v # <<"0">>
      [] OTHER -> x.v # <<>>

IsStr(x) == x.t = "str"

\* a list element that is no dict (None, a string, a number)
NotMapping == [t |-> "notdict", v |-> <<>>]

\* tender.get exists
IsMapping(tender) == "title" \in DOMAIN tender

(***************************************************************************)
(* A tender: the fields the post-processor reads or writes.  source_url   *)
(* is a url or "", scraped_at the clock reading that was formatted into   *)
(* the field.                                                              *)
(***************************************************************************)
Tender(title, description, deadline, source_url, scraped_at) ==
    [title |-> title, description |-> description, deadline |-> deadline,
     source_url |-> source_url, scraped_at |-> scraped_at]

(***************************************************************************)
(* _post_process_tenders, one record.  raised: the body of the try block  *)
(* raised (a str method called on a value that is not a str), so the      *)
(* record is skipped; kept: the record is appended to processed_tenders.  *)
(***************************************************************************)
\* line 1135: not tender.get('title') or len(tender['title'].strip()) < 5
TitleRejected(tender) ==
    \/ ~Truthy(tender.title)
    \/ (IsStr(tender.title) /\ Len(Strip(tender.title.v)) < MinTitleLen)

\* line 1135 calls .get on the record, lines 1135 and 1139 .strip() on a
\* truthy title, 1145 on a truthy description
PostProcessRaises(tender) ==
    \/ ~IsMapping(tender)
    \/ (Truthy(tender.title) /\ ~IsStr(tender.title))
    \/ (~TitleRejected(tender) /\ Truthy(tender.description)
            /\ ~IsStr(tender.description))

\* variant of CleanDescription without the length test: cuts and marks always
CleanDescriptionAlwaysMarks(d) ==
    IF ~Truthy(d) THEN d
    ELSE Str(Take(Strip(d.v), MaxDescriptionLen) \o <<".", ".", ".">>)

\* lines 1143-1147
CleanDescription(d) ==
    IF ~Truthy(d) THEN d
    ELSE IF Len(Strip(d.v)) > MaxDescriptionLen
         THEN Str(Take(Strip(d.v), MaxDescriptionLen) \o <<".", ".", ".">>)
         ELSE Str(Strip(d.v))

\* lines 1149-1158
ValidateDeadline(d) ==
    IF Truthy(d) /\ IsStr(d)
    THEN IF ReMatchDate(d.v) THEN d ELSE Str(<<>>)
    ELSE d

\* variant of ProcessedTender that trims and validates but leaves source_url
\* and scraped_at as the strategy set them
ProcessedTenderUnstamped(tender, source_url, t) ==
    Tender(Str(Strip(tender.title.v)),
           CleanDescription(tender.description),
           ValidateDeadline(tender.deadline),
           tender.source_url,
           tender.scraped_at)

\* lines 1139-1158: the record as appended
ProcessedTender(tender, source_url, t) ==
    Tender(Str(Strip(tender.title.v)),
           CleanDescription(tender.description),
           ValidateDeadline(tender.deadline),
           source_url,
           t)

TenderKept(tender) == ~PostProcessRaises(tender) /\ ~TitleRejected(tender)

RECURSIVE PostProcessFrom(_, _, _, _)
PostProcessFrom(tenders, i, source_url, t) ==
    IF i > Len(tenders) THEN <<>>
    ELSE (IF TenderKept(tenders[i])
          THEN <<ProcessedTender(tenders[i], source_url, t)>>
          ELSE <<>>) \o PostProcessFrom(tenders, i + 1, source_url, t)

\* _post_process_tenders(tenders, source_url) run at clock reading t
PostProcess(tenders, source_url, t) == PostProcessFrom(tenders, 1, source_url, t)

(***************************************************************************)
(* _get_sample_tenders: two fixed tenders stamped with the url and the    *)
(* clock.                                                                  *)
(***************************************************************************)
SampleTitle1 == Rep("c", 46)

SampleTitle2 == Rep("y", 36)

SampleDeadline1 == <<"2", "0", "2", "5", "-", "0", "2", "-", "1", "5">>

SampleDeadline2 == <<"2", "0", "2", "5", "-", "0", "3", "-", "0", "1">>

GetSampleTenders(source_url, t) ==
    << Tender(Str(SampleTitle1), Str(Rep("s", 109)), Str(SampleDeadline1),
              source_url, t),
       Tender(Str(SampleTitle2), Str(Rep("i", 108)), Str(SampleDeadline2),
              source_url, t) >>

(***************************************************************************)
(* What the extraction strategies can hand back.  A raw record is built   *)
(* from a template; the strategy stamps scraped_at with its own clock     *)
(* reading.  Each strategy is given the templates its extraction code can *)
(* produce.                                                                *)
(***************************************************************************)
DateDMY == <<"0", "1", "/", "0", "3", "/", "2", "0", "2", "5">>

\* an ISO date followed by a time of day: "2025-02-15T17"
DateThenText == SampleDeadline1 \o <<"T", "1", "7">>

\* a title above every length filter, a short description, a clean date
RawGood == [title |-> Str(Rep("a", 25)), description |-> Str(Rep("d", 30)),
            deadline |-> Str(DateDMY)]

\* only a title
RawBare == [title |-> Str(Rep("b", 21)), description |-> Absent,
            deadline |-> Absent]

\* a title of exactly 5 characters between blanks, description padded too
RawFive == [title |-> Str(<<" ">> \o Rep("e", 5) \o <<" ", "\n">>),
            description |-> Str(<<" ">> \o Rep("d", 12) \o <<" ">>),
            deadline |-> Str(<<>>)]

\* a title of 3 characters
RawShort == [title |-> Str(Rep("x", 3)), description |-> Str(Rep("d", 12)),
             deadline |-> Str(DateDMY)]

\* a title of blanks only
RawBlank == [title |-> Str(Rep(" ", 6)), description |-> Str(<<>>),
             deadline |-> Str(<<>>)]

\* deadline: a date followed by more text (str(item['deadline']).strip())
RawTrailing == [title |-> Str(Rep("t", 19)), description |-> Str(<<>>),
                deadline |-> Str(DateThenText)]

\* deadline: text that is no date
RawNotDate == [title |-> Str(Rep("n", 8)), description |-> Str(Rep("d", 12)),
               deadline |-> Str(<<"s", "o", "o", "n">>)]

\* JSON-LD closingDate given as a number
RawIntDeadline == [title |-> Str(Rep("j", 9)), description |-> Absent,
                   deadline |-> Num(<<"2", "0", "2", "5">>)]

\* JSON-LD name given as a number
RawIntTitle == [title |-> Num(<<"4", "2">>), description |-> Absent,
                deadline |-> Absent]

\* JSON-LD description given as a list
RawListDesc == [title |-> Str(Rep("m", 7)),
                description |-> [t |-> "list", v |-> <<"d">>],
                deadline |-> Absent]

Strategies ==
    {"api_endpoint", "rss", "playwright", "selenium", "requests",
     "api_endpoints", "default"}

\* the templates by name
Template(name) ==
    CASE name = "good" -> RawGood
      [] name = "bare" -> RawBare
      [] name = "five" -> RawFive
      [] name = "short" -> RawShort
      [] name = "blank" -> RawBlank
      [] name = "trailing" -> RawTrailing
      [] name = "notdate" -> RawNotDate
      [] name = "intdeadline" -> RawIntDeadline
      [] name = "inttitle" -> RawIntTitle
      [] OTHER -> RawListDesc

Produces(strategy) ==
    CASE strategy = "api_endpoint" -> {"good", "trailing", "notdate"}
      [] strategy = "rss" -> {"five", "short", "blank"}
      [] strategy = "playwright" -> {"good", "bare"}
      [] strategy = "selenium" -> {"good", "bare"}
      [] strategy = "requests" -> {"intdeadline", "inttitle"}
      [] strategy = "api_endpoints" -> {"good", "short", "listdesc"}
      [] OTHER -> {}

\* the lists of at most MaxRaw templates of a strategy
RawLists(strategy) ==
    UNION {[1..n -> Produces(strategy)] : n \in 0..MaxRaw}

\* the url a headless browser ends on after redirects (page.url)
LandingUrl == "https://redirect.example/"

\* the source_url a strategy writes into its records: the API, RSS and
\* discovery paths pass the input url on, the browsers use the page's own
\* url, _extract_tender_data_static sets ''
RawSourceUrl(strategy, url) ==
    CASE strategy \in {"api_endpoint", "rss", "api_endpoints"} -> url
      [] strategy \in {"playwright", "selenium"} -> LandingUrl
      [] OTHER -> ""

Stamp(strategy, templates, url, t) ==
    [i \in 1..Len(templates) |->
        Tender(Template(templates[i]).title, Template(templates[i]).description,
               Template(templates[i]).deadline, RawSourceUrl(strategy, url), t)]

(***************************************************************************)
(* One run of a strategy, as the orchestrator and the network see it:     *)
(*   ret     the list it returns (names of templates, not yet stamped)    *)
(*   raised  it raised instead of returning                               *)
(*   calls   the outbound requests it issued, in order                    *)
(*   step    seconds from one of its requests to the next                 *)
(*   dur     seconds the whole run took                                   *)
(* lat is the time one request takes.  Every strategy wraps its body in   *)
(* try/except Exception and returns [] from the handler, so only a call   *)
(* of a method that does not exist raises.                                *)
(***************************************************************************)
Run(ret, calls, step, dur) ==
    [ret |-> ret, raised |-> FALSE, calls |-> calls, step |-> step, dur |-> dur]

Latencies == 0..MaxLatency

\* session.get / session.post: the call raised, a status other than 200,
\* status 200 with a body that is not JSON, status 200 with a JSON body
HttpOutcomes == {"error", "non200", "notjson", "json"}

\* _scrape_with_api_endpoint: GET, then POST unless the GET gave JSON or raised
ApiEndpointRuns(lat) ==
    {Run(IF c.get = "json" THEN c.parsed ELSE <<>>, <<"GET">>, lat, lat) :
        c \in [get : {"json", "error"}, parsed : RawLists("api_endpoint")]}
    \cup
    {Run(IF c.post = "json" THEN c.parsed ELSE <<>>, <<"GET", "POST">>,
         lat, 2 * lat) :
        c \in [get : {"non200", "notjson"}, post : HttpOutcomes,
               parsed : RawLists("api_endpoint")]}

\* _scrape_with_rss: one feed fetch; no entries or an exception give []
RssRuns(lat) == {Run(entries, <<"FEED">>, lat, lat) : entries \in RawLists("rss")}

\* _scrape_with_playwright: the launch may fail before any navigation; page.goto
\* is tried up to SCRAPING_MAX_RETRIES times with time.sleep(2) between two
\* attempts; after a successful navigation time.sleep(3), then the selectors
PlaywrightRuns(lat) ==
    {Run(<<>>, <<>>, 0, 0)}
    \cup
    {Run(c.found, Rep("GOTO", c.n), lat + RetrySleep,
         c.n * lat + (c.n - 1) * RetrySleep + SettleSleep) :
        c \in [n : 1..SCRAPING_MAX_RETRIES, found : RawLists("playwright")]}
    \cup
    {Run(<<>>, Rep("GOTO", SCRAPING_MAX_RETRIES), lat + RetrySleep,
         SCRAPING_MAX_RETRIES * lat + (SCRAPING_MAX_RETRIES - 1) * RetrySleep)}

\* _scrape_with_selenium_fallback: no backend or no driver gives [] before any
\* request; otherwise one driver.get
SeleniumRuns(lat) ==
    {Run(<<>>, <<>>, 0, 0)}
    \cup
    {Run(found, <<"GET">>, lat, lat) : found \in RawLists("selenium")}

\* _scrape_with_requests: one GET
RequestsRuns(lat) ==
    {Run(found, <<"GET">>, lat, lat) : found \in RawLists("requests")}

\* 'nest.go.tz' in url or 'finca.co.tz' in url
IsSpecialSite(u) == u = "https://nest.go.tz/tenders"

\* _scrape_with_api_endpoints: a special handler (one GET) for the named
\* portals; otherwise the candidates of api_patterns are fetched one after the
\* other until one returns
ApiEndpointsRuns(u, lat) ==
    IF IsSpecialSite(u)
    THEN {Run(found, <<"GET">>, lat, lat) : found \in RawLists("api_endpoints")}
    ELSE {Run(c.found, Rep("GET", c.n), lat, c.n * lat) :
            c \in [n : 1..NumApiPatterns, found : RawLists("api_endpoints")]}

\* self._scrape_with_default_strategy is defined nowhere: AttributeError
DefaultStrategyRuns ==
    {[ret |-> <<>>, raised |-> TRUE, calls |-> <<>>, step |-> 0, dur |-> 0]}

StrategyRuns(strategy, u, lat) ==
    CASE strategy = "api_endpoint" -> ApiEndpointRuns(lat)
      [] strategy = "rss" -> RssRuns(lat)
      [] strategy = "playwright" -> PlaywrightRuns(lat)
      [] strategy = "selenium" -> SeleniumRuns(lat)
      [] strategy = "requests" -> RequestsRuns(lat)
      [] strategy = "api_endpoints" -> ApiEndpointsRuns(u, lat)
      [] OTHER -> DefaultStrategyRuns

(***************************************************************************)
(* State.                                                                  *)
(***************************************************************************)
VARIABLES
    now,                  \* time.time()
    requests_per_minute,  \* RateLimiter.requests_per_minute
    use_sample_data,      \* config.USE_SAMPLE_DATA
    url,                  \* the site's url, the url argument of scrape_web
    site_config,          \* the site's descriptor, the site_config argument
    last_request_time,    \* RateLimiter.last_request_time
    pc,                   \* where the running scrape_web call stands
    k,                    \* index into strategies of the generic loop
    latency,              \* seconds one outbound request takes during the call
    call_start,           \* clock reading when the call was entered
    trace,                \* wait_if_needed and strategy invocations of the
                          \* call: what ran, how it ended, at which stage
    raw,                  \* the non-empty list a strategy returned, if any
    result,               \* the list the call returned
    returned,             \* "no", "list", or "exception" if the call raised
    rl,                   \* the call's wait_if_needed: clock at entry, the
                          \* last_request_time it read, the sleep it asked for
    last_sent_at,         \* clock reading of the call's last outbound request
    waited,               \* wait_if_needed returned and no request went out since
    unthrottled,          \* the call issued a request not preceded by a wait
    close_requests        \* the call issued a request less than min_interval
                          \* after its previous one

vars ==
    <<now, requests_per_minute, use_sample_data, url, site_config,
      last_request_time, pc, k, latency, call_start, trace, raw, result,
      returned, rl, last_sent_at, waited, unthrottled, close_requests>>

Urls == {"https://portal.example/tenders", "https://nest.go.tz/tenders"}

ScraperTypes == {"playwright", "selenium", "requests", "auto"}

\* site_config=None
NoSiteConfig ==
    [given |-> FALSE, api_url |-> FALSE, rss_url |-> FALSE, scraper_type |-> ""]

\* a site descriptor: api_url / rss_url present or not, scraper_type set or not
SiteConfigs ==
    {NoSiteConfig} \cup
    [given : {TRUE}, api_url : BOOLEAN, rss_url : BOOLEAN,
     scraper_type : ScraperTypes \cup {""}]

\* variant of GenericStrategies with the two browsers exchanged
GenericStrategiesSwapped ==
    <<"selenium", "playwright", "requests", "api_endpoints">>

\* the strategies list of the generic cascade
GenericStrategies == <<"playwright", "selenium", "requests", "api_endpoints">>

\* variant of ExplicitStrategy: whatever the scraper_type, Playwright
ExplicitStrategyPlaywright(scraper_type) == "playwright"

\* the if/elif chain on scraper_type
ExplicitStrategy(scraper_type) ==
    CASE scraper_type = "playwright" -> "playwright"
      [] scraper_type = "selenium" -> "selenium"
      [] scraper_type = "requests" -> "requests"
      [] OTHER -> "default"

\* min_interval = 60.0 / self.requests_per_minute
MinInterval(rpm) == SecondsPerMinute \div rpm

NoWait == [start |-> 0, prev |-> 0, slept |-> FALSE, sleep_time |-> 0]

NoRaw == [strategy |-> "", names |-> <<>>, at |-> 0]

(***************************************************************************)
(* The parts of the program that are checked on their own, each with a    *)
(* variable of its own and a specification of its own further down.  The  *)
(* variable of a part is "idle" in every other specification.             *)
(***************************************************************************)
VARIABLES
    pp,                   \* a run of _post_process_tenders: its argument,
                          \* what it returned, what it returned for that
    dx,                   \* one description on its way from the source
                          \* document through a strategy to the caller
    br,                   \* the module import and the browser strategies,
                          \* statement by statement, with the browsers and
                          \* drivers they hold
    ap,                  \* a run of _parse_api_data: the JSON body and the
                          \* tenders made of it
    rq,                   \* a run of _extract_requirements_from_api: the
                          \* item and the list made of it
    tb,                   \* a run of table extraction: the extractor, the
                          \* rows and the titles of the records emitted
    sc,                   \* a call of score_tender: its inputs, the two
                          \* partial results and the mapping returned
    ep,                   \* a run of _scrape_with_api_endpoint: the requests
                          \* sent, the response to the GET, the result
    rs,                   \* a run of _scrape_with_requests: the page, the
                          \* inner sources consulted, the records
    pw,                   \* the navigation loop and the selector loop of
                          \* _scrape_with_playwright on one page
    ti,                   \* a run of _extract_title_from_api: the item, the
                          \* title and the tender made of it
    em                    \* a run of send_email_multiple: the recipients,
                          \* the attempts made and the counts

parts == <<pp, dx, br, ap, rq, tb, sc, ep, rs, pw, ti, em>>

PartsIdle ==
    /\ pp = "idle"
    /\ dx = "idle"
    /\ br = "idle"
    /\ ap = "idle"
    /\ rq = "idle"
    /\ tb = "idle"
    /\ sc = "idle"
    /\ ep = "idle"
    /\ rs = "idle"
    /\ pw = "idle"
    /\ ti = "idle"
    /\ em = "idle"

\* the scraper is constructed for one site; nothing has been scraped yet
Init ==
    /\ now = BootTime
    /\ requests_per_minute \in RpmChoices
    /\ use_sample_data \in BOOLEAN
    /\ url \in Urls
    /\ site_config \in SiteConfigs
    /\ last_request_time = 0
    /\ pc = "idle"
    /\ k = 1
    /\ latency = 0
    /\ call_start = 0
    /\ trace = <<>>
    /\ raw = NoRaw
    /\ result = <<>>
    /\ returned = "no"
    /\ rl = NoWait
    /\ last_sent_at = 0
    /\ waited = FALSE
    /\ unthrottled = FALSE
    /\ close_requests = FALSE

(***************************************************************************)
(* scrape_web(url, site_config) is entered, some time after the previous  *)
(* call returned.                                                          *)
(***************************************************************************)
ScrapeWeb ==
    /\ pc \in {"idle", "done"}
    /\ \E idle \in 0..MaxIdle :
        /\ now + idle <= MaxTime
        /\ now' = now + idle
    /\ latency' \in Latencies
    /\ pc' = "wait"
    /\ k' = 1
    /\ call_start' = now'
    /\ trace' = <<>>
    /\ raw' = NoRaw
    /\ result' = <<>>
    /\ returned' = "no"
    /\ rl' = NoWait
    /\ last_sent_at' = 0
    /\ waited' = FALSE
    /\ unthrottled' = FALSE
    /\ close_requests' = FALSE
    /\ UNCHANGED <<requests_per_minute, use_sample_data, url, site_config,
                   last_request_time, parts>>

(***************************************************************************)
(* RateLimiter.wait_if_needed (line 76 of scrape_web).                    *)
(***************************************************************************)
\* line 36: time_since_last < min_interval
MustSleep(time_since_last, min_interval) == time_since_last < min_interval

\* variant of SleepTime that sleeps for the jitter alone
SleepTimeJitterOnly(time_since_last, min_interval, jitter) == jitter

\* line 37: min_interval - time_since_last + random.uniform(0, delay_seconds)
SleepTime(time_since_last, min_interval, jitter) ==
    min_interval - time_since_last + jitter

\* line 40: the value stored in last_request_time, given the clock at return
StoredRequestTime(clock_at_return, current_time) == clock_at_return

\* variant of StageFrom in which the RSS test is an elif of the API test
StageFromElif(stage, cfg) ==
    LET explicit == IF cfg.scraper_type # "" THEN "explicit" ELSE "generic"
        rss == IF cfg.rss_url THEN "rss" ELSE explicit
    IN  CASE stage = "api" -> IF cfg.api_url THEN "api" ELSE rss
          [] stage = "rss" -> IF cfg.api_url THEN explicit ELSE rss
          [] stage = "explicit" -> explicit
          [] OTHER -> "generic"

\* the stage the call goes to once the test at line 79 / 87 / 95 fails
StageFrom(stage, cfg) ==
    LET explicit == IF cfg.scraper_type # "" THEN "explicit" ELSE "generic"
        rss == IF cfg.rss_url THEN "rss" ELSE explicit
    IN  CASE stage = "api" -> IF cfg.api_url THEN "api" ELSE rss
          [] stage = "rss" -> rss
          [] stage = "explicit" -> explicit
          [] OTHER -> "generic"

\* variant of WaitIfNeeded: scrape_web without its line 76
WaitIfNeededSkipped ==
    /\ pc = "wait"
    /\ pc' = StageFrom("api", site_config)
    /\ UNCHANGED <<now, requests_per_minute, use_sample_data, url, site_config,
                   last_request_time, k, latency, call_start, trace, raw,
                   result, returned, rl, last_sent_at, waited, unthrottled,
                   close_requests, parts>>

WaitIfNeeded ==
    /\ pc = "wait"
    /\ LET current_time == now
           time_since_last == current_time - last_request_time
           min_interval == MinInterval(requests_per_minute)
       IN  \E jitter \in 0..RATE_LIMIT_DELAY_SECONDS :
             LET sleeps == MustSleep(time_since_last, min_interval)
                 sleep_time == SleepTime(time_since_last, min_interval, jitter)
                 woke == IF sleeps THEN current_time + sleep_time
                         ELSE current_time
             IN  /\ sleeps \/ jitter = 0
                 /\ woke <= MaxTime
                 /\ now' = woke
                 /\ last_request_time' = StoredRequestTime(woke, current_time)
                 /\ rl' = [start |-> current_time, prev |-> last_request_time,
                           slept |-> sleeps,
                           sleep_time |-> IF sleeps THEN sleep_time ELSE 0]
    /\ trace' = Append(trace, [s |-> "wait_if_needed", out |-> "returned",
                              stage |-> pc])
    /\ waited' = TRUE
    /\ pc' = StageFrom("api", site_config)
    /\ UNCHANGED <<requests_per_minute, use_sample_data, url, site_config, k,
                   latency, call_start, raw, result, returned, last_sent_at,
                   unthrottled, close_requests, parts>>

(***************************************************************************)
(* One strategy invocation inside scrape_web, with what follows it up to  *)
(* the next invocation or the return.                                      *)
(***************************************************************************)
Outcome(run) ==
    IF run.raised THEN "raised"
    ELSE IF run.ret # <<>> THEN "nonempty" ELSE "empty"

\* variant of MainExcept: the handler lets the exception through
MainExceptPropagates == [returned |-> "exception", result |-> <<>>]

\* lines 141-143: except Exception -> return []
MainExcept == [returned |-> "list", result |-> <<>>]

\* variant of ReturnOf: the sample tenders stand in for a list that
\* post-processing emptied
ReturnOfOrSample(tenders, source_url, t) ==
    IF PostProcess(tenders, source_url, t) = <<>>
    THEN GetSampleTenders(source_url, t)
    ELSE PostProcess(tenders, source_url, t)

\* lines 84, 92, 111, 127: what is returned for a non-empty list of a strategy
ReturnOf(tenders, source_url, t) == PostProcess(tenders, source_url, t)

\* lines 133-139: after the loop
AfterLoop(sample_mode, source_url, t) ==
    IF sample_mode THEN GetSampleTenders(source_url, t) ELSE <<>>

\* the truth test on what a strategy returned (lines 82, 90, 109, 125)
GotTenders(run) == ~run.raised /\ run.ret # <<>>

\* the outbound requests of a run that starts now
NoteRequests(run) ==
    LET n == Len(run.calls)
        min_interval == MinInterval(requests_per_minute)
    IN  /\ last_sent_at' = IF n > 0 THEN now + (n - 1) * run.step
                           ELSE last_sent_at
        /\ waited' = (waited /\ n = 0)
        /\ unthrottled' = (unthrottled \/ (n > 0 /\ ~waited) \/ n > 1)
        /\ close_requests' =
              (\/ close_requests
               \/ (n > 0 /\ ~waited /\ now - last_sent_at < min_interval)
               \/ (n > 1 /\ run.step < min_interval))

\* guarded: the invocation stands inside the try of the generic loop, whose
\* handler continues with the next strategy; elsewhere an exception reaches
\* the handler of the whole call.  next: the stage that follows an empty
\* result, "after_loop" once the loop is exhausted.
Invoke(strategy, run, guarded, next) ==
    LET t_end == now + run.dur
    IN  /\ t_end <= MaxTime
        /\ now' = t_end
        /\ trace' = Append(trace, [s |-> strategy, out |-> Outcome(run),
                                  stage |-> pc])
        /\ NoteRequests(run)
        /\ CASE run.raised /\ ~guarded ->
                  /\ pc' = "done"
                  /\ returned' = MainExcept.returned
                  /\ result' = MainExcept.result
                  /\ raw' = raw
             [] GotTenders(run) ->
                  /\ pc' = "done"
                  /\ returned' = "list"
                  /\ result' = ReturnOf(Stamp(strategy, run.ret, url, now),
                                        url, t_end)
                  /\ raw' = [strategy |-> strategy, names |-> run.ret,
                             at |-> now]
             [] OTHER ->
                  IF next = "after_loop"
                  THEN /\ pc' = "done"
                       /\ returned' = "list"
                       /\ result' = AfterLoop(use_sample_data, url, t_end)
                       /\ raw' = raw
                  ELSE /\ pc' = next
                       /\ UNCHANGED <<returned, result, raw>>
        /\ UNCHANGED <<requests_per_minute, use_sample_data, last_request_time,
                       url, site_config, latency, call_start, rl>>

\* lines 78-84
ApiEndpoint ==
    /\ pc = "api"
    /\ \E run \in StrategyRuns("api_endpoint", url, latency) :
          Invoke("api_endpoint", run, FALSE, StageFrom("rss", site_config))
    /\ UNCHANGED <<k, parts>>

\* lines 86-92
Rss ==
    /\ pc = "rss"
    /\ \E run \in StrategyRuns("rss", url, latency) :
          Invoke("rss", run, FALSE, StageFrom("explicit", site_config))
    /\ UNCHANGED <<k, parts>>

\* lines 94-111
Explicit ==
    /\ pc = "explicit"
    /\ LET strategy == ExplicitStrategy(site_config.scraper_type)
       IN  \E run \in StrategyRuns(strategy, url, latency) :
              Invoke(strategy, run, FALSE, "generic")
    /\ UNCHANGED <<k, parts>>

\* lines 113-139: one turn of the loop over strategies and, after the last
\* turn, the sample data or the empty list
Generic ==
    /\ pc = "generic"
    /\ LET strategy == GenericStrategies[k]
       IN  \E run \in StrategyRuns(strategy, url, latency) :
              Invoke(strategy, run, TRUE,
                     IF k < Len(GenericStrategies) THEN "generic"
                     ELSE "after_loop")
    /\ k' = IF pc' = "generic" THEN k + 1 ELSE k
    /\ UNCHANGED parts

Next ==
    \/ ScrapeWeb
    \/ WaitIfNeeded
    \/ ApiEndpoint
    \/ Rss
    \/ Explicit
    \/ Generic

\* the scraper as constructed, never called
ScraperIdle ==
    /\ Init
    /\ requests_per_minute = 60
    /\ ~use_sample_data
    /\ url = "https://portal.example/tenders"
    /\ site_config = NoSiteConfig

\* the scraper as constructed, with no part at work
ScraperInit == Init /\ PartsIdle

Spec == ScraperInit /\ [][Next]_<<vars, parts>>

(***************************************************************************)
(* Properties of scrape_web, read off the trace of the running call.      *)
(***************************************************************************)
\* the call has returned
Done == pc = "done"

\* the invocations of the call made at a given stage, in order
AtStage(stage) == SelectSeq(trace, LAMBDA e : e.stage = stage)

\* some invocation of the call handed back a non-empty list
SomeNonEmpty == \E i \in DOMAIN trace : trace[i].out = "nonempty"

\* C1: scrape_web never propagates an exception: whatever the url, the site
\* descriptor and the outcome of each strategy, a call that has ended has
\* returned a list, and an exception that reaches the handler of the whole
\* call turns into the empty list.
C1_NeverPropagates ==
    /\ returned \in {"no", "list"}
    /\ Done => returned = "list"
    /\ (Done /\ \E i \in DOMAIN trace :
                    trace[i].out = "raised" /\ trace[i].stage # "generic")
          => result = <<>>

\* a call ended although a strategy invocation raised
C1_Witness ==
    /\ Done
    /\ returned = "list"
    /\ \E i \in DOMAIN trace : trace[i].out = "raised"

\* C2: once the generic loop is entered, its strategies run in the order
\* playwright, selenium, requests, API discovery; one is invoked only after
\* every earlier one raised or returned nothing; the first non-empty result
\* ends the call, which returns that result post-processed, and no later
\* strategy is invoked.
C2_GenericCascade ==
    LET G == AtStage("generic")
        order == <<"playwright", "selenium", "requests", "api_endpoints">>
    IN  /\ Len(G) <= Len(order)
        /\ \A i \in DOMAIN G :
              /\ G[i].s = order[i]
              /\ \A j \in 1..(i - 1) : G[j].out \in {"raised", "empty"}
              /\ G[i].out = "nonempty" =>
                    /\ i = Len(G)
                    /\ Done
                    /\ returned = "list"
                    /\ raw.strategy = order[i]
                    /\ result = PostProcess(
                                    Stamp(raw.strategy, raw.names, url, raw.at),
                                    url, now)
        /\ (Done /\ G # <<>>) =>
              \/ G[Len(G)].out = "nonempty"
              \/ Len(G) = Len(order)
        /\ pc = "generic" => Len(G) = k - 1

\* the last strategy of the loop returned tenders after the three before it
\* returned nothing
C2_Witness ==
    LET G == AtStage("generic")
    IN  /\ Done
        /\ Len(G) = 4
        /\ G[4].out = "nonempty"
        /\ result # <<>>

\* C3 as stated: the RSS strategy is attempted only when api_url is absent
\* and rss_url is present; an RSS attempt never follows an API-endpoint
\* attempt of the same call.
C3_RssOnlyWithoutApi ==
    \A i \in DOMAIN trace :
        trace[i].s = "rss" =>
            /\ ~site_config.api_url
            /\ site_config.rss_url
            /\ \A j \in 1..(i - 1) : trace[j].s # "api_endpoint"

\* C3, amended: the API-endpoint strategy is the first strategy attempted
\* when api_url is present; the RSS strategy is attempted exactly when
\* rss_url is present and the API-endpoint strategy was not attempted or
\* returned nothing, directly after it; an API-endpoint attempt never
\* follows an RSS attempt.
C3_ApiThenRss ==
    /\ \A i \in DOMAIN trace :
          trace[i].s = "api_endpoint" => (i = 2 /\ site_config.api_url)
    /\ (site_config.given /\ site_config.api_url /\ Len(trace) >= 2)
          => trace[2].s = "api_endpoint"
    /\ \A i \in DOMAIN trace :
          trace[i].s = "rss" =>
              /\ site_config.rss_url
              /\ IF site_config.api_url
                 THEN i = 3 /\ trace[2].s = "api_endpoint"
                            /\ trace[2].out = "empty"
                 ELSE i = 2
    /\ (Done /\ site_config.rss_url
             /\ (site_config.api_url => trace[2].out = "empty"))
          => \E i \in DOMAIN trace : trace[i].s = "rss"

\* the RSS strategy ran directly after an API-endpoint attempt
C3_Witness ==
    \E i \in DOMAIN trace :
        /\ i + 1 \in DOMAIN trace
        /\ trace[i].s = "api_endpoint"
        /\ trace[i + 1].s = "rss"

\* C4: with scraper_type one of playwright, selenium, requests, auto, the
\* call invokes the strategy chosen by the value, returns its post-processed
\* result when that is non-empty and otherwise goes on to the generic loop:
\* the call never ends before the generic loop has been tried.
C4_ExplicitFallsThrough ==
    LET E == AtStage("explicit")
    IN  /\ Len(E) <= 1
        /\ E # <<>> =>
              /\ site_config.scraper_type \in ScraperTypes
              /\ E[1].out = "nonempty" =>
                    /\ Done
                    /\ result = PostProcess(
                                    Stamp(raw.strategy, raw.names, url, raw.at),
                                    url, now)
              /\ (Done /\ E[1].out # "nonempty") => AtStage("generic") # <<>>

\* C5: with USE_SAMPLE_DATA on, a call in which no strategy produced
\* anything returns the two sample tenders, their source_url the url of
\* the call.
C5_SampleFallback ==
    (Done /\ use_sample_data /\ ~SomeNonEmpty) =>
        /\ returned = "list"
        /\ Len(result) = 2
        /\ result[1].title = Str(SampleTitle1)
        /\ result[2].title = Str(SampleTitle2)
        /\ \A i \in DOMAIN result : result[i].source_url = url

\* C6: in every call wait_if_needed is invoked exactly once, and it has
\* returned before the first strategy is invoked.
C6_WaitOnceFirst ==
    /\ pc \notin {"idle", "wait"} =>
          (trace # <<>> /\ trace[1].s = "wait_if_needed")
    /\ \A i \in DOMAIN trace :
          (trace[i].s = "wait_if_needed") <=> (i = 1)
    /\ pc = "wait" => trace = <<>>

\* a call that went through several strategies has ended
C6_Witness ==
    /\ Done
    /\ Len(trace) >= 4
    /\ trace[1].s = "wait_if_needed"

\* C7: every outbound request of a call is preceded by a wait_if_needed of
\* its own, so two consecutive requests are at least min_interval apart.
C7_EveryRequestThrottled == ~unthrottled /\ ~close_requests

\* C8: wait_if_needed with min_interval = 60 / requests_per_minute: with
\* elapsed >= min_interval it does not sleep, otherwise it sleeps
\* min_interval - elapsed + j for a j in 0..delay_seconds; last_request_time
\* becomes the clock at return, so two consecutive returns are at least
\* min_interval apart; at 30 requests per minute a call right after another
\* sleeps at least 2 seconds less the largest jitter.
C8_WaitArithmetic ==
    pc \notin {"idle", "wait"} =>
        LET min_interval == 60 \div requests_per_minute
            elapsed == rl.start - rl.prev
        IN  /\ elapsed >= min_interval =>
                  (~rl.slept /\ rl.sleep_time = 0)
            /\ elapsed < min_interval =>
                  /\ rl.slept
                  /\ \E j \in 0..RATE_LIMIT_DELAY_SECONDS :
                        rl.sleep_time = min_interval - elapsed + j
            /\ last_request_time = rl.start + rl.sleep_time
            /\ last_request_time - rl.prev >= min_interval
            /\ (requests_per_minute = 30 /\ elapsed = 0) =>
                  rl.sleep_time >= 2 - RATE_LIMIT_DELAY_SECONDS
            /\ now >= last_request_time

\* a second call entered right after the previous wait_if_needed returned,
\* and slept
C8_Witness ==
    /\ pc \notin {"idle", "wait"}
    /\ rl.prev > 0
    /\ rl.start = rl.prev
    /\ rl.slept
    /\ requests_per_minute = 30

\* C9: every tender of a returned list has a trimmed title of at least 5
\* characters, the url of the call as source_url whatever the strategy had
\* set, and a scraped_at taken when the list was put together, not before
\* the call started.
C9_ReturnedTenders ==
    Done =>
        \A i \in DOMAIN result :
            /\ IsStr(result[i].title)
            /\ result[i].title.v = Strip(result[i].title.v)
            /\ Len(result[i].title.v) >= 5
            /\ result[i].source_url = url
            /\ result[i].scraped_at >= call_start
            /\ result[i].scraped_at = now

\* a browser strategy, which stamps the landing url and its own clock,
\* produced the returned list
C9_Witness ==
    /\ Done
    /\ result # <<>>
    /\ raw.strategy \in {"playwright", "selenium"}
    /\ RawSourceUrl(raw.strategy, url) # url
    /\ raw.at < now

\* C10: the deadline of every returned tender is the empty string or a
\* string that is, from its first to its last character, a date of one of
\* the two shapes; a record that carries no deadline is left aside.
C10_DeadlineShape ==
    Done =>
        \A i \in DOMAIN result :
            \/ result[i].deadline = Absent
            \/ result[i].deadline = Str(<<>>)
            \/ (IsStr(result[i].deadline) /\ FullDate(result[i].deadline.v))

(***************************************************************************)
(* _post_process_tenders on its own: a batch of raw records is processed, *)
(* and the list it returned is processed once more.                        *)
(***************************************************************************)
\* a description of 502 characters between blanks
RawLongDesc == [title |-> Str(Rep("l", 7)),
                description |-> Str(<<" ">> \o Rep("d", 502) \o <<" ">>),
                deadline |-> Absent]

\* a description of exactly 500 characters, the last of them a blank inside
\* the text
RawEdgeDesc == [title |-> Str(Rep("g", 6)),
                description |-> Str(Rep("d", 498) \o <<" ", "d">>),
                deadline |-> Str(SampleDeadline1)]

\* a description of blanks only
RawBlankDesc == [title |-> Str(Rep("w", 6)),
                 description |-> Str(Rep(" ", 3)),
                 deadline |-> Str(DateThenText)]

\* the records a batch is drawn from, as a strategy stamps them
BatchRecords ==
    {Tender(r.title, r.description, r.deadline, "", 0) :
        r \in {RawGood, RawFive, RawShort, RawBlank, RawTrailing, RawNotDate,
               RawIntDeadline, RawIntTitle, RawListDesc, RawLongDesc,
               RawEdgeDesc, RawBlankDesc}}
    \cup {NotMapping}

Batches == UNION {[1..n -> BatchRecords] : n \in 0..MaxBatch}

\* variant of RecordExcept: the handler lets the exception through
RecordExceptPropagates == "raise"

\* lines 1162-1164: except Exception -> continue
RecordExcept == "continue"

\* an exception leaves _post_process_tenders
PostProcessPropagates(tenders) ==
    \E i \in DOMAIN tenders :
        PostProcessRaises(tenders[i]) /\ RecordExcept = "raise"

PostInit ==
    /\ ScraperIdle
    /\ dx = "idle"
    /\ br = "idle"
    /\ ap = "idle"
    /\ rq = "idle"
    /\ tb = "idle"
    /\ sc = "idle"
    /\ ep = "idle"
    /\ rs = "idle"
    /\ pw = "idle"
    /\ ti = "idle"
    /\ em = "idle"
    /\ \E tenders \in Batches :
          pp = [pc |-> "new", tenders |-> tenders, raised |-> FALSE,
                processed |-> <<>>, again |-> <<>>, at |-> 0]

\* _post_process_tenders(tenders, url)
PostProcessTenders ==
    /\ pp.pc = "new"
    /\ \E t \in 1..2 :
          pp' = [pp EXCEPT !.pc = "once",
                           !.raised = PostProcessPropagates(pp.tenders),
                           !.processed = PostProcess(pp.tenders, url, t),
                           !.at = t]
    /\ UNCHANGED <<vars, dx, br, ap, rq, tb, sc, ep, rs, pw, ti, em>>

\* _post_process_tenders(processed, url), later
PostProcessAgain ==
    /\ pp.pc = "once"
    /\ ~pp.raised
    /\ pp' = [pp EXCEPT !.pc = "twice",
                        !.raised = PostProcessPropagates(pp.processed),
                        !.again = PostProcess(pp.processed, url, pp.at + 1)]
    /\ UNCHANGED <<vars, dx, br, ap, rq, tb, sc, ep, rs, pw, ti, em>>

PostNext ==
    \/ PostProcessTenders
    \/ PostProcessAgain

SpecPost == PostInit /\ [][PostNext]_<<vars, parts>>

\* C11: post-processing is idempotent: processing the returned list again
\* with the same url returns as many records, each with the same title,
\* description and deadline; only scraped_at moves.
C11_Idempotent ==
    pp.pc = "twice" =>
        /\ Len(pp.again) = Len(pp.processed)
        /\ \A i \in DOMAIN pp.processed :
              /\ pp.again[i].title = pp.processed[i].title
              /\ pp.again[i].description = pp.processed[i].description
              /\ pp.again[i].deadline = pp.processed[i].deadline
              /\ pp.again[i].source_url = pp.processed[i].source_url

\* a description that was cut and marked went through the second pass
C11_Witness ==
    /\ pp.pc = "twice"
    /\ \E i \in DOMAIN pp.processed :
          /\ IsStr(pp.processed[i].description)
          /\ Len(pp.processed[i].description.v) = 503
          /\ pp.again[i].description = pp.processed[i].description

\* the records of a batch that go through: a mapping whose title is a
\* string of at least 5 characters once trimmed and whose description is a
\* string or empty
Sound(tender) ==
    /\ "title" \in DOMAIN tender
    /\ tender.title.t = "str"
    /\ Len(Strip(tender.title.v)) >= 5
    /\ (tender.description.t = "str" \/ ~Truthy(tender.description))

\* C12: _post_process_tenders never raises; a record whose processing
\* fails is skipped and the others are returned in their original order.
C12_SkipsAndKeepsOrder ==
    pp.pc # "new" =>
        LET sound == SelectSeq(pp.tenders, Sound)
        IN  /\ ~pp.raised
            /\ Len(pp.processed) = Len(sound)
            /\ \A i \in DOMAIN sound :
                  pp.processed[i].title.v = Strip(sound[i].title.v)

\* a batch held a failing record before a sound one
C12_Witness ==
    /\ pp.pc = "once"
    /\ Len(pp.tenders) = 2
    /\ IsMapping(pp.tenders[1]) => PostProcessRaises(pp.tenders[1])
    /\ Len(pp.processed) = 1

(***************************************************************************)
(* A description from the source document to the caller of scrape_web:    *)
(* the strategy builds the raw record, _post_process_tenders cleans it.   *)
(***************************************************************************)
\* the API paths (_parse_api_data), the RSS path, JSON-LD with a description
DescriptionPaths == {"api", "rss", "jsonld"}

\* lengths of the text of a source description
DescriptionLengths == {0, 8, 12, 499, 500, 501, 502}

Paddings == {<<>>, <<" ">>}

SourceDescriptions ==
    {c.before \o Rep("d", c.n) \o c.after :
        c \in [before : Paddings, n : DescriptionLengths, after : Paddings]}

\* the least length _extract_description_from_api takes for a description
MinApiDescriptionLen == 10

\* the description a strategy puts into its raw record
\*   api    lines 1025-1028: str(item[field]).strip(), longer than 10, [:500]
\*   rss    line 446: entry.get('summary', '')[:500]
\*   jsonld line 1454: data.get('description')
RawDescription(path, source) ==
    CASE path = "api" ->
            IF Len(Strip(source)) > MinApiDescriptionLen
            THEN Take(Strip(source), MaxDescriptionLen)
            ELSE <<>>
      [] path = "rss" -> Take(source, MaxDescriptionLen)
      [] OTHER -> source

DescInit ==
    /\ ScraperIdle
    /\ pp = "idle"
    /\ br = "idle"
    /\ ap = "idle"
    /\ rq = "idle"
    /\ tb = "idle"
    /\ sc = "idle"
    /\ ep = "idle"
    /\ rs = "idle"
    /\ pw = "idle"
    /\ ti = "idle"
    /\ em = "idle"
    /\ \E path \in DescriptionPaths, source \in SourceDescriptions :
          dx = [pc |-> "source", path |-> path, source |-> source,
                raw |-> <<>>, returned |-> <<>>]

\* the strategy builds the raw record
BuildRaw ==
    /\ dx.pc = "source"
    /\ dx' = [dx EXCEPT !.pc = "raw",
                        !.raw = <<Tender(Str(Rep("a", 25)),
                                         Str(RawDescription(dx.path, dx.source)),
                                         Absent, url, 0)>>]
    /\ UNCHANGED <<vars, pp, br, ap, rq, tb, sc, ep, rs, pw, ti, em>>

\* scrape_web returns self._post_process_tenders(tenders, url)
ReturnProcessed ==
    /\ dx.pc = "raw"
    /\ dx' = [dx EXCEPT !.pc = "returned",
                        !.returned = ReturnOf(dx.raw, url, 1)]
    /\ UNCHANGED <<vars, pp, br, ap, rq, tb, sc, ep, rs, pw, ti, em>>

DescNext ==
    \/ BuildRaw
    \/ ReturnProcessed

SpecDesc == DescInit /\ [][DescNext]_<<vars, parts>>

\* C13: on every path a source description longer than 500 characters once
\* trimmed is returned as its first 500 characters followed by "...", and
\* one of at most 500 characters is returned as it is, trimmed.
C13_CutAndMarked ==
    dx.pc = "returned" =>
        LET trimmed == Strip(dx.source)
        IN  /\ Len(dx.returned) = 1
            /\ dx.returned[1].description =
                  IF Len(trimmed) > 500
                  THEN Str(Take(trimmed, 500) \o <<".", ".", ".">>)
                  ELSE Str(trimmed)

(***************************************************************************)
(* The browser strategies statement by statement, with the module import  *)
(* before them.  br.browser is the Chromium of the running Playwright     *)
(* call, br.driver the Chrome of the running Selenium call; br.open       *)
(* counts the browsers that a call left open when it returned.            *)
(***************************************************************************)
\* br with the call moved on to another statement
\* lines 176-190: tender_selectors
TenderSelectors ==
    <<"table", "tr", "[class*=tender]", "[class*=opportunity]",
      "[class*=rfp]", "[class*=bid]", "[class*=procurement]",
      ".listing-item", ".card", ".tender-item", ".opportunity-item",
      "[class*=content]", "[class*=main]">>

\* line 201: the selectors handed to _extract_tenders_from_table
TableSelectors == {"table", "tr"}

\* line 209: the selectors whose elements are extracted
SelectiveSelectors ==
    {"[class*=tender]", "[class*=opportunity]", "[class*=rfp]"}

BrAt(stmt) == [br EXCEPT !.pc = stmt]

BrowserInit ==
    /\ ScraperIdle
    /\ pp = "idle"
    /\ dx = "idle"
    /\ ap = "idle"
    /\ rq = "idle"
    /\ tb = "idle"
    /\ sc = "idle"
    /\ ep = "idle"
    /\ rs = "idle"
    /\ pw = "idle"
    /\ ti = "idle"
    /\ em = "idle"
    /\ \E installed \in BOOLEAN :
          br = [pc |-> "import", selenium_installed |-> installed,
                playwright |-> "none", browser |-> "none", driver |-> "none",
                attempt |-> 0, sel |-> 0, found |-> FALSE, calls |-> 0,
                open |-> 0, out |-> "none", last |-> "none",
                left |-> [browser |-> "none", driver |-> "none"],
                path |-> <<>>]

\* lines 1-16: the imports at the head of tools/scraper.py; lines 4-6 import
\* selenium unconditionally
ImportModule ==
    /\ br.pc = "import"
    /\ br' = BrAt(IF br.selenium_installed THEN "loaded" ELSE "import_failed")
    /\ UNCHANGED <<vars, pp, dx, ap, rq, tb, sc, ep, rs, pw, ti, em>>

\* _scrape_with_playwright is entered: with sync_playwright() as p
EnterPlaywright ==
    /\ br.pc = "loaded"
    /\ br.calls < MaxBrowserCalls
    /\ br' = [br EXCEPT !.pc = "pw_launch", !.playwright = "started",
                        !.calls = br.calls + 1, !.out = "none",
                        !.found = FALSE, !.path = <<>>]
    /\ UNCHANGED <<vars, pp, dx, ap, rq, tb, sc, ep, rs, pw, ti, em>>

\* lines 149-159: p.chromium.launch, new_page, viewport and headers
PwLaunch ==
    /\ br.pc = "pw_launch"
    /\ \/ br' = [br EXCEPT !.pc = "pw_unwind",
                           !.path = Append(br.path, "launch_failed")]
       \/ br' = [br EXCEPT !.pc = "pw_goto", !.browser = "open"]
       \/ br' = [br EXCEPT !.pc = "pw_unwind", !.browser = "open",
                           !.path = Append(br.path, "setup_failed")]
    /\ UNCHANGED <<vars, pp, dx, ap, rq, tb, sc, ep, rs, pw, ti, em>>

\* lines 162-170: one turn of the navigation loop
PwGoto ==
    /\ br.pc = "pw_goto"
    /\ \/ br' = [br EXCEPT !.pc = "pw_select", !.sel = 1]
       \/ IF br.attempt = SCRAPING_MAX_RETRIES - 1
          THEN br' = [br EXCEPT !.pc = "pw_unwind",
                                !.path = Append(br.path, "navigation_failed")]
          ELSE br' = [br EXCEPT !.attempt = br.attempt + 1]
    /\ UNCHANGED <<vars, pp, dx, ap, rq, tb, sc, ep, rs, pw, ti, em>>

\* lines 193-224: one turn of the loop over tender_selectors; an exception
\* is caught inside the loop
PwSelect ==
    /\ br.pc = "pw_select"
    /\ \E outcome \in {"nothing", "raised"}
                        \cup (IF TenderSelectors[br.sel] \in
                                    TableSelectors \cup SelectiveSelectors
                              THEN {"tenders"} ELSE {}) :
          LET logged == IF outcome = "raised" /\ "selector_raised" \notin
                                {br.path[i] : i \in DOMAIN br.path}
                        THEN Append(br.path, "selector_raised") ELSE br.path
          IN  IF outcome = "tenders" \/ br.sel = NumSelectors
              THEN br' = [br EXCEPT !.pc = "pw_close",
                                    !.found = (outcome = "tenders"),
                                    !.path = logged]
              ELSE br' = [br EXCEPT !.sel = br.sel + 1, !.path = logged]
    /\ UNCHANGED <<vars, pp, dx, ap, rq, tb, sc, ep, rs, pw, ti, em>>

\* line 226: browser.close()
PwClose ==
    /\ br.pc = "pw_close"
    /\ br' = [br EXCEPT !.pc = "pw_exit", !.browser = "closed"]
    /\ UNCHANGED <<vars, pp, dx, ap, rq, tb, sc, ep, rs, pw, ti, em>>

\* variant of WithExit: leaving the with block leaves the browser as it is
WithExitKeeps(browser) == browser

\* line 148: leaving the with block of sync_playwright() stops the Playwright
\* driver, and with it every browser it launched
WithExit(browser) == IF browser = "open" THEN "closed" ELSE browser

\* lines 227-231: the with block is left, by return tenders or by an
\* exception on its way to except Exception: return []
PwReturn ==
    /\ br.pc \in {"pw_exit", "pw_unwind"}
    /\ LET after == [br EXCEPT !.browser = WithExit(br.browser),
                               !.playwright = "stopped"]
       IN  br' = [after EXCEPT !.pc = "loaded",
                         !.out = IF br.pc = "pw_exit" /\ br.found
                                 THEN "tenders" ELSE "empty",
                         !.attempt = 0, !.sel = 0,
                         !.open = br.open +
                                  (IF after.browser = "open" THEN 1 ELSE 0),
                         !.last = "playwright",
                         !.left = [browser |-> after.browser,
                                   driver |-> "none"],
                         !.browser = "none", !.playwright = "none"]
    /\ UNCHANGED <<vars, pp, dx, ap, rq, tb, sc, ep, rs, pw, ti, em>>

\* _scrape_with_selenium_fallback is entered: lines 236-246, the imports
\* inside the function and the options
EnterSelenium ==
    /\ br.pc = "loaded"
    /\ br.calls < MaxBrowserCalls
    /\ LET entered == [br EXCEPT !.calls = br.calls + 1, !.out = "none",
                                 !.found = FALSE, !.path = <<>>]
       IN  br' = IF br.selenium_installed
                 THEN [entered EXCEPT !.pc = "se_create"]
                 ELSE [entered EXCEPT !.pc = "loaded", !.out = "empty",
                                      !.last = "selenium",
                                      !.path = <<"import_error">>]
    /\ UNCHANGED <<vars, pp, dx, ap, rq, tb, sc, ep, rs, pw, ti, em>>

\* lines 248-254: webdriver.Chrome, driver.get, WebDriverWait(...).until
SeOpen ==
    /\ br.pc \in {"se_create", "se_get", "se_wait"}
    /\ \/ br' = [br EXCEPT !.pc = "se_failed",
                           !.path = Append(br.path, br.pc)]
       \/ /\ br.pc = "se_create"
          /\ br' = [br EXCEPT !.pc = "se_get", !.driver = "open"]
       \/ /\ br.pc = "se_get"
          /\ br' = BrAt("se_wait")
       \/ /\ br.pc = "se_wait"
          /\ br' = BrAt("se_find")
    /\ UNCHANGED <<vars, pp, dx, ap, rq, tb, sc, ep, rs, pw, ti, em>>

\* lines 257-268: find_elements, then the loop over the elements, whose
\* exceptions are caught inside the loop
SeFind ==
    /\ br.pc = "se_find"
    /\ \/ br' = [br EXCEPT !.pc = "se_failed",
                           !.path = Append(br.path, "se_find")]
       \/ \E found \in BOOLEAN :
             br' = [br EXCEPT !.pc = "se_quit", !.found = found]
    /\ UNCHANGED <<vars, pp, dx, ap, rq, tb, sc, ep, rs, pw, ti, em>>

\* lines 270-271: driver.quit(); return tenders
SeQuit ==
    /\ br.pc = "se_quit"
    /\ br' = [[br EXCEPT !.driver = "closed"] EXCEPT
                  !.pc = "loaded",
                  !.out = IF br.found THEN "tenders" ELSE "empty",
                  !.last = "selenium",
                  !.left = [browser |-> "none", driver |-> "closed"],
                  !.driver = "none"]
    /\ UNCHANGED <<vars, pp, dx, ap, rq, tb, sc, ep, rs, pw, ti, em>>

\* lines 275-277: except Exception: return []
SeExcept ==
    /\ br.pc = "se_failed"
    /\ br' = [br EXCEPT !.pc = "loaded", !.out = "empty",
                        !.last = "selenium",
                        !.open = br.open + (IF br.driver = "open" THEN 1 ELSE 0),
                        !.left = [browser |-> "none", driver |-> br.driver],
                        !.driver = "none"]
    /\ UNCHANGED <<vars, pp, dx, ap, rq, tb, sc, ep, rs, pw, ti, em>>

BrowserNext ==
    \/ ImportModule
    \/ EnterPlaywright
    \/ PwLaunch
    \/ PwGoto
    \/ PwSelect
    \/ PwClose
    \/ PwReturn
    \/ EnterSelenium
    \/ SeOpen
    \/ SeFind
    \/ SeQuit
    \/ SeExcept

SpecBrowser == BrowserInit /\ [][BrowserNext]_<<vars, parts>>

\* C14: a Playwright strategy call that launched a browser has closed it
\* when it returns, on every exit path: tenders found, nothing found,
\* navigation failed after the last retry, a selector raised.
C14_PlaywrightClosed ==
    /\ (br.pc = "loaded" /\ br.last = "playwright") =>
          /\ br.left.browser \in {"none", "closed"}
          /\ br.out \in {"tenders", "empty"}
    /\ br.pc = "pw_exit" => br.browser = "closed"
    /\ (br.pc = "loaded" /\ br.last = "playwright"
          /\ br.path # <<>> /\ br.path[Len(br.path)] # "selector_raised")
          => br.out = "empty"

\* the call returned after the navigation failed for the last time, with a
\* browser launched
C14_Witness ==
    /\ br.pc = "loaded"
    /\ br.last = "playwright"
    /\ br.path = <<"navigation_failed">>
    /\ br.left.browser = "closed"

\* C15: a Selenium strategy call that created a driver has quit it when it
\* returns, on every exit path, so that no browser is left open after any
\* sequence of calls.
C15_SeleniumReleased ==
    /\ (br.pc = "loaded" /\ br.last = "selenium") => br.left.driver # "open"
    /\ br.open = 0

\* C16: without the selenium package the module still loads, and the
\* Selenium strategy returns the empty list.
C16_MissingBackendSilent ==
    ~br.selenium_installed =>
        /\ br.pc # "import_failed"
        /\ (br.pc = "loaded" /\ br.last = "selenium") => br.out = "empty"

(***************************************************************************)
(* _parse_api_data on its own.  A JSON value is a list of items, a dict   *)
(* or something else; an item is a dict with a title or no dict at all.   *)
(* origin tells where in the body an item stood.                           *)
(***************************************************************************)
JsonList(items) == [t |-> "list", items |-> items]

\* a dict under a key: items holds the one item the dict is
JsonDict(item) == [t |-> "dict", items |-> <<item>>]

JsonOther == [t |-> "other", items |-> <<>>]

Item(kind, title, origin) == [kind |-> kind, title |-> title, origin |-> origin]

\* str(x)
ToStr(x) == x.v

\* line 1013: title_fields
TitleFields ==
    <<"title", "name", "subject", "heading", "tender_title",
      "opportunity_title">>

\* lines 1014-1019: the first field that the item holds with a truthy value
\* whose str(...).strip() is longer than 5 characters, cut to 200; ''
\* when there is none
RECURSIVE TitleFrom(_, _)
TitleFrom(item, i) ==
    IF i > Len(TitleFields) THEN <<>>
    ELSE IF /\ TitleFields[i] \in DOMAIN item
            /\ Truthy(item[TitleFields[i]])
            /\ Len(Strip(ToStr(item[TitleFields[i]]))) > MinApiTitleLen
         THEN Take(Strip(ToStr(item[TitleFields[i]])), MaxApiTitleLen)
         ELSE TitleFrom(item, i + 1)

\* _extract_title_from_api(item)
ExtractTitleFromApi(item) == TitleFrom(item, 1)

\* the items that can stand at one place of a body
ItemsAt(origin) ==
    {Item("dict", Str(Rep("t", 8)), origin),
     Item("dict", Num(Rep("7", 6)), origin),
     Item("dict", Str(Rep("e", 5)), origin),
     Item("dict", Absent, origin),
     Item("other", Absent, origin)}

\* the values a key of a dict body can hold
ValuesAt(key) ==
    {JsonOther, JsonList(<<>>)}
    \cup {JsonList(<<i>>) : i \in ItemsAt(key)}
    \cup {JsonDict(i) : i \in {Item("dict", Str(Rep("t", 8)), key)}}

\* the keys that vary in the bodies of the model
BodyKeys == {"data", "notices", "content"}

\* a dict body: some of the keys with a value each, and the dict's own title
DictBodies ==
    {[t |-> "dict", fields |-> f, own |-> o] :
        f \in {g \in UNION {[K -> UNION {ValuesAt(key) : key \in BodyKeys}] :
                                K \in SUBSET BodyKeys} :
                    \A key \in DOMAIN g : g[key] \in ValuesAt(key)},
        o \in {Item("dict", Str(Rep("o", 9)), "body"),
               Item("dict", Absent, "body")}}

ListBodies ==
    {[t |-> "list", fields |-> <<>>, own |-> Item("other", Absent, "body"),
      items |-> l] :
        l \in UNION {[1..n -> ItemsAt("body")] : n \in 0..MaxItems}}

OtherBody == [t |-> "other", fields |-> <<>>, own |-> Item("other", Absent, "body")]

\* variant of ApiListKeys with the keys in the opposite order
ApiListKeysReversed ==
    <<"notices", "opportunities", "tenders", "items", "results", "data">>

\* line 956
ApiListKeys ==
    <<"data", "results", "items", "tenders", "opportunities", "notices">>

HoldsList(data, key) ==
    key \in DOMAIN data.fields /\ data.fields[key].t = "list"

\* lines 955-959: the loop over the keys, left at the first key with a list
RECURSIVE FirstList(_, _)
FirstList(data, i) ==
    IF i > Len(ApiListKeys) THEN <<>>
    ELSE IF HoldsList(data, ApiListKeys[i])
         THEN data.fields[ApiListKeys[i]].items
         ELSE FirstList(data, i + 1)

\* lines 961-966
FromContent(data, items) ==
    IF items = <<>> /\ "content" \in DOMAIN data.fields
    THEN IF data.fields["content"].t \in {"list", "dict"}
         THEN data.fields["content"].items
         ELSE items
    ELSE items

\* lines 968-970
OrItself(data, items) == IF items = <<>> THEN <<data.own>> ELSE items

\* lines 951-973: the items of a body
ItemsOf(data) ==
    IF data.t = "list" THEN data.items
    ELSE OrItself(data, FromContent(data, FirstList(data, 1)))

\* lines 975-1007: one tender for every item that is a dict and has a title
RECURSIVE TendersOf(_, _)
TendersOf(items, i) ==
    IF i > Len(items) THEN <<>>
    ELSE (IF items[i].kind = "dict" /\ ExtractTitleFromApi(items[i]) # <<>>
          THEN <<[title |-> ExtractTitleFromApi(items[i]),
                  origin |-> items[i].origin]>>
          ELSE <<>>) \o TendersOf(items, i + 1)

\* _parse_api_data(data, source_url)
ParseApiData(data) ==
    IF data.t \in {"list", "dict"} THEN TendersOf(ItemsOf(data), 1) ELSE <<>>

ApiInit ==
    /\ ScraperIdle
    /\ pp = "idle"
    /\ dx = "idle"
    /\ br = "idle"
    /\ rq = "idle"
    /\ tb = "idle"
    /\ sc = "idle"
    /\ ep = "idle"
    /\ rs = "idle"
    /\ pw = "idle"
    /\ ti = "idle"
    /\ em = "idle"
    /\ \E data \in DictBodies \cup ListBodies \cup {OtherBody} :
          ap = [pc |-> "body", data |-> data, tenders |-> <<>>]

ParseBody ==
    /\ ap.pc = "body"
    /\ ap' = [ap EXCEPT !.pc = "parsed", !.tenders = ParseApiData(ap.data)]
    /\ UNCHANGED <<vars, pp, dx, br, rq, tb, sc, ep, rs, pw, ti, em>>

ApiNext == ParseBody

SpecApi == ApiInit /\ [][ApiNext]_<<vars, parts>>

\* C17 as stated: the items are the body itself when it is a list; for a
\* dict the list held under one of the keys data, results, items, tenders,
\* opportunities, notices, content, and the dict itself as the only item
\* only when it holds no such list; any other body gives no tender; an item
\* that is no dict or has no title gives no tender.
C17_ItemsAsStated ==
    ap.pc = "parsed" =>
        LET d == ap.data
            keys == {"data", "results", "items", "tenders", "opportunities",
                     "notices", "content"}
            lists == {key \in keys : HoldsList(d, key)}
            claimed == CASE d.t = "list" -> {d.items}
                         [] d.t = "dict" ->
                              IF lists # {}
                              THEN {d.fields[key].items : key \in lists}
                              ELSE {<<d.own>>}
                         [] OTHER -> {<<>>}
        IN  \E items \in claimed : ap.tenders = TendersOf(items, 1)

\* C17, amended: the items are the body itself when it is a list; for a
\* dict, the list under the first of the keys data, results, items,
\* tenders, opportunities, notices that holds a list; when there is none
\* or it is empty, the value of content, a list as it is and a dict as the
\* only item; and when that leaves no item either, the dict itself as the
\* only item.  Any other body gives no tender, and an item that is no dict
\* or has no title gives no tender.
C17_ItemsChosen ==
    ap.pc = "parsed" =>
        LET d == ap.data
            keys == <<"data", "results", "items", "tenders", "opportunities",
                      "notices">>
            withList == {i \in 1..6 : HoldsList(d, keys[i])}
            first == IF withList = {} THEN <<>>
                     ELSE d.fields[keys[CHOOSE i \in withList :
                                  \A j \in withList : i <= j]].items
            second == IF first # <<>> THEN first
                      ELSE IF "content" \in DOMAIN d.fields
                              /\ d.fields["content"].t \in {"list", "dict"}
                           THEN d.fields["content"].items
                           ELSE <<>>
            third == IF second # <<>> THEN second ELSE <<d.own>>
            items == CASE d.t = "list" -> d.items
                       [] d.t = "dict" -> third
                       [] OTHER -> <<>>
        IN  /\ Len(ap.tenders) <= Len(items)
            /\ ap.tenders =
                  SelectSeq([i \in DOMAIN items |->
                                [title |-> IF items[i].kind = "dict"
                                           THEN ExtractTitleFromApi(items[i])
                                           ELSE <<>>,
                                 origin |-> items[i].origin]],
                            LAMBDA x : x.title # <<>>)
            /\ \A i \in DOMAIN ap.tenders :
                  \E j \in DOMAIN items :
                      /\ items[j].kind = "dict"
                      /\ items[j].origin = ap.tenders[i].origin
                      /\ Len(ap.tenders[i].title) > 5
            /\ Len(ap.tenders) =
                  Cardinality({j \in DOMAIN items :
                                  /\ items[j].kind = "dict"
                                  /\ items[j].title.t # "absent"
                                  /\ Len(Strip(items[j].title.v)) > 5})

\* a dict whose data list is empty and whose notices list is not: the dict
\* itself became the only tender
C17_Witness ==
    /\ ap.pc = "parsed"
    /\ ap.data.t = "dict"
    /\ HoldsList(ap.data, "data")
    /\ ap.data.fields["data"].items = <<>>
    /\ HoldsList(ap.data, "notices")
    /\ ap.data.fields["notices"].items # <<>>
    /\ Len(ap.tenders) = 1
    /\ ap.tenders[1].origin = "body"

(***************************************************************************)
(* _extract_requirements_from_api on its own.  An item maps some of the   *)
(* alias keys to a value: a list, a string, or something else.            *)
(***************************************************************************)
\* line 1111
RequirementsFields ==
    <<"requirements", "criteria", "qualifications", "specifications",
      "conditions">>

List(elements) == [t |-> "list", v |-> elements]

\* the characters of a requirements string
ReqChars == {"a", ";", ",", " "}

ReqStrings == UNION {[1..n -> ReqChars] : n \in 0..MaxReqLen}

\* the elements of a requirements list: strings, '', None, a number
ReqElements == {Str(<<"a">>), Str(<<" ", "b">>), Str(<<>>), Absent,
                Num(<<"3">>)}

ReqLists == UNION {[1..n -> ReqElements] : n \in 0..MaxReqLen - 1}

\* what the key requirements can hold
ReqValues ==
    {Str(s) : s \in ReqStrings} \cup {List(l) : l \in ReqLists}
        \cup {Num(<<"7">>), Num(<<"0">>)}

\* what a later alias can hold
LaterValues == {Str(<<"c">>), List(<<Str(<<"c">>)>>)}

\* the alias keys that vary in the items of the model
ReqKeys == {"requirements", "criteria", "conditions"}

\* a key the item does not hold
Missing == [t |-> "missing", v |-> <<>>]

ReqItems ==
    {[key \in {held \in ReqKeys : c[held] # Missing} |-> c[key]] :
        c \in [requirements : ReqValues \cup {Missing},
               criteria : LaterValues \cup {Missing},
               conditions : LaterValues \cup {Missing}]}

\* s.split(sep): the pieces between the separators, empty ones included
RECURSIVE SplitFrom(_, _, _, _)
SplitFrom(s, sep, i, piece) ==
    IF i > Len(s) THEN <<piece>>
    ELSE IF s[i] = sep
         THEN <<piece>> \o SplitFrom(s, sep, i + 1, <<>>)
         ELSE SplitFrom(s, sep, i + 1, Append(piece, s[i]))

Split(s, sep) == SplitFrom(s, sep, 1, <<>>)

Contains(s, c) == \E i \in DOMAIN s : s[i] = c

\* [req.strip() for req in pieces if req.strip()]
StrippedPieces(pieces) ==
    SelectSeq([i \in DOMAIN pieces |-> Strip(pieces[i])],
              LAMBDA piece : piece # <<>>)

\* variant of Delimiters that tries the comma first
DelimitersCommaFirst == <<",", ";">>

\* lines 1119 and 1121: the delimiters in the order they are tried
Delimiters == <<";", ",">>

\* lines 1117-1124: a string value
FromString(reqs) ==
    IF Contains(reqs, Delimiters[1])
    THEN StrippedPieces(Split(reqs, Delimiters[1]))
    ELSE IF Contains(reqs, Delimiters[2])
         THEN StrippedPieces(Split(reqs, Delimiters[2]))
         ELSE <<Strip(reqs)>>

\* line 1116: [str(req) for req in reqs if req]
FromList(reqs) ==
    LET kept == SelectSeq(reqs, Truthy)
    IN  [i \in DOMAIN kept |-> ToStr(kept[i])]

\* lines 1112-1126: the loop over the alias keys; a value that is neither a
\* list nor a string lets the loop go on
RECURSIVE RequirementsFrom(_, _)
RequirementsFrom(item, i) ==
    IF i > Len(RequirementsFields) THEN <<>>
    ELSE LET field == RequirementsFields[i]
         IN  IF field \in DOMAIN item /\ Truthy(item[field])
             THEN CASE item[field].t = "list" -> FromList(item[field].v)
                    [] item[field].t = "str" -> FromString(item[field].v)
                    [] OTHER -> RequirementsFrom(item, i + 1)
             ELSE RequirementsFrom(item, i + 1)

\* _extract_requirements_from_api(item)
ExtractRequirementsFromApi(item) == RequirementsFrom(item, 1)

ReqInit ==
    /\ ScraperIdle
    /\ pp = "idle"
    /\ dx = "idle"
    /\ br = "idle"
    /\ ap = "idle"
    /\ tb = "idle"
    /\ sc = "idle"
    /\ ep = "idle"
    /\ rs = "idle"
    /\ pw = "idle"
    /\ ti = "idle"
    /\ em = "idle"
    /\ \E item \in ReqItems :
          rq = [pc |-> "item", item |-> item, requirements |-> <<>>]

ExtractRequirements ==
    /\ rq.pc = "item"
    /\ rq' = [rq EXCEPT !.pc = "extracted",
                        !.requirements = ExtractRequirementsFromApi(rq.item)]
    /\ UNCHANGED <<vars, pp, dx, br, ap, tb, sc, ep, rs, pw, ti, em>>

ReqNext == ExtractRequirements

SpecReq == ReqInit /\ [][ReqNext]_<<vars, parts>>

\* the alias keys of an item that hold a value, in the order of the code
WithValue(item) ==
    SelectSeq(<<"requirements", "criteria", "qualifications",
                "specifications", "conditions">>,
              LAMBDA key : key \in DOMAIN item /\ Truthy(item[key]))

\* C18 as stated: for the first alias key with a value, a list is returned
\* element for element; a string is split on ';' if it holds one, else on
\* ',' if it holds one, else returned as the only element; without any
\* value the result is the empty list.
C18_AsStated ==
    rq.pc = "extracted" =>
        LET keys == WithValue(rq.item)
            value == rq.item[keys[1]]
        IN  IF keys = <<>> THEN rq.requirements = <<>>
            ELSE CASE value.t = "list" ->
                        /\ Len(rq.requirements) = Len(value.v)
                        /\ \A i \in DOMAIN value.v :
                              rq.requirements[i] = value.v[i].v
                   [] value.t = "str" ->
                        rq.requirements =
                            IF Contains(value.v, ";") THEN Split(value.v, ";")
                            ELSE IF Contains(value.v, ",")
                                 THEN Split(value.v, ",")
                                 ELSE <<value.v>>
                   [] OTHER -> TRUE

\* C18, amended: the result comes from the first alias key, in the order
\* requirements, criteria, qualifications, specifications, conditions, whose
\* value is a non-empty list or a non-empty string.  A list gives str() of
\* each of its truthy elements, in order.  A string is split on ';' if it
\* holds one, else on ',' if it holds one, and the pieces are trimmed and
\* the empty ones dropped; a string with neither gives the one-element
\* list holding the trimmed string.  Without such a key the result is the
\* empty list.
C18_Normalised ==
    rq.pc = "extracted" =>
        LET usable == SelectSeq(WithValue(rq.item),
                                LAMBDA key : rq.item[key].t \in {"list", "str"})
            value == rq.item[usable[1]]
            trimmed(pieces) ==
                SelectSeq([i \in DOMAIN pieces |-> Strip(pieces[i])],
                          LAMBDA piece : Len(piece) > 0)
        IN  IF usable = <<>> THEN rq.requirements = <<>>
            ELSE IF value.t = "list"
                 THEN LET truthy == SelectSeq(value.v, Truthy)
                      IN  /\ Len(rq.requirements) = Len(truthy)
                          /\ \A i \in DOMAIN truthy :
                                rq.requirements[i] = truthy[i].v
                 ELSE rq.requirements =
                        IF Contains(value.v, ";")
                        THEN trimmed(Split(value.v, ";"))
                        ELSE IF Contains(value.v, ",")
                             THEN trimmed(Split(value.v, ","))
                             ELSE <<Strip(value.v)>>

\* a string with both delimiters was split on ';' alone and an empty piece
\* was dropped
C18_Witness ==
    /\ rq.pc = "extracted"
    /\ "requirements" \in DOMAIN rq.item
    /\ rq.item["requirements"] = Str(<<";", ",", "a">>)
    /\ rq.requirements = << <<",", "a">> >>

(***************************************************************************)
(* Table extraction on its own: the rows of one table go through          *)
(*   dom_table     _extract_tenders_from_single_table (Playwright)        *)
(*   dom_rows      _extract_tenders_from_rows (Playwright, selector tr)   *)
(*   static_table  _extract_tenders_from_static_table (requests)          *)
(* A row is the sequence of the texts of its td cells.                     *)
(***************************************************************************)
Word(w) ==
    CASE w = "menu" -> <<"m", "e", "n", "u">>
      [] w = "navigation" -> <<"n", "a", "v", "i", "g", "a", "t", "i", "o", "n">>
      [] w = "header" -> <<"h", "e", "a", "d", "e", "r">>
      [] w = "footer" -> <<"f", "o", "o", "t", "e", "r">>
      [] w = "sidebar" -> <<"s", "i", "d", "e", "b", "a", "r">>
      [] w = "tender" -> <<"t", "e", "n", "d", "e", "r">>
      [] w = "rfp" -> <<"r", "f", "p">>
      [] w = "bid" -> <<"b", "i", "d">>
      [] w = "procurement" ->
            <<"p", "r", "o", "c", "u", "r", "e", "m", "e", "n", "t">>
      [] w = "supply" -> <<"s", "u", "p", "p", "l", "y">>
      [] OTHER -> <<"s", "e", "r", "v", "i", "c", "e">>

\* line 1250: the words that disqualify a title
SkipWords == {"menu", "navigation", "header", "footer", "sidebar"}

\* line 1270: the words one of which a row must hold
RowKeywords == {"tender", "rfp", "bid", "procurement", "supply", "service"}

UpperCase ==
    {"A", "B", "C", "D", "E", "F", "G", "H", "I", "J", "K", "L", "M", "N",
     "O", "P", "Q", "R", "S", "T", "U", "V", "W", "X", "Y", "Z"}

LowerCase ==
    <<"a", "b", "c", "d", "e", "f", "g", "h", "i", "j", "k", "l", "m", "n",
      "o", "p", "q", "r", "s", "t", "u", "v", "w", "x", "y", "z">>

UpperSeq ==
    <<"A", "B", "C", "D", "E", "F", "G", "H", "I", "J", "K", "L", "M", "N",
      "O", "P", "Q", "R", "S", "T", "U", "V", "W", "X", "Y", "Z">>

\* c.lower()
LowerChar(c) ==
    IF c \in UpperCase
    THEN LowerCase[CHOOSE i \in 1..26 : UpperSeq[i] = c]
    ELSE c

Lower(s) == [i \in DOMAIN s |-> LowerChar(s[i])]

\* w in s
HasWord(s, w) ==
    \E i \in 1..(Len(s) - Len(Word(w)) + 1) :
        SubSeq(s, i, i + Len(Word(w)) - 1) = Word(w)

\* ' '.join(s.split())
RECURSIVE CollapseFrom(_, _)
CollapseFrom(s, i) ==
    IF i > Len(s) THEN <<>>
    ELSE IF s[i] \in Whitespace
         THEN IF i < Len(s) /\ s[i + 1] \notin Whitespace
              THEN <<" ">> \o CollapseFrom(s, i + 1)
              ELSE CollapseFrom(s, i + 1)
         ELSE <<s[i]>> \o CollapseFrom(s, i + 1)

Collapse(s) == CollapseFrom(Strip(s), 1)

\* re.match(r'^[A-Z]{2}-[A-Z]+-\d+', s)
IsTenderNumber(s) ==
    /\ Len(s) >= 3
    /\ s[1] \in UpperCase /\ s[2] \in UpperCase /\ s[3] = "-"
    /\ \E j \in 5..Len(s) :
          /\ \A i \in 4..(j - 1) : s[i] \in UpperCase
          /\ s[j] = "-"
          /\ j + 1 <= Len(s)
          /\ s[j + 1] \in Digits

\* the texts a cell can hold
CellEmpty == <<>>

CellNumber == <<"A", "B", "-", "C", "D", "-", "1", "2">>

CellShort == Word("bid") \o Rep("s", 9)

CellTwenty == Word("bid") \o Rep("t", 17)

CellLong == Word("bid") \o Rep("l", 19)

CellMenu == <<"M", "e", "n", "u", " ">> \o Word("bid") \o Rep("m", 16)

CellSpaced == Word("bid") \o Rep(" ", 12) \o Rep("w", 8)

TableRows ==
    {<<first, second>> :
        first \in {CellEmpty, CellNumber, CellLong, CellMenu},
        second \in {CellEmpty, CellShort, CellTwenty, CellLong, CellMenu,
                    CellSpaced}}
    \cup {<<CellLong>>, <<CellNumber>>}

Tables == UNION {[1..n -> TableRows] : n \in 0..MaxDataRows}

\* lines 1287-1297: the first cell of a row of the rendered page
DomFirstCell(cells) ==
    LET text == Strip(cells[1])
        clean == Collapse(text)
    IN  IF Len(text) > MinFirstCellLen
        THEN IF IsTenderNumber(clean)
             THEN [tender_number |-> clean, title |-> <<>>]
             ELSE IF Len(clean) > MinTableTitleLen
                  THEN [tender_number |-> <<>>, title |-> clean]
                  ELSE [tender_number |-> <<>>, title |-> <<>>]
        ELSE [tender_number |-> <<>>, title |-> <<>>]

\* lines 1385-1390: the first cell of a row of the static page
StaticFirstCell(cells) ==
    LET text == Strip(cells[1])
    IN  IF Len(text) > MinFirstCellLen
        THEN [tender_number |-> Collapse(text), title |-> <<>>]
        ELSE [tender_number |-> <<>>, title |-> <<>>]

\* lines 1299-1308 and 1392-1397: the second cell, with what the first gave
SecondCell(cells, tender, keeps_title) ==
    IF Len(cells) >= 2 /\ Len(Strip(cells[2])) > MinSecondCellLen
    THEN IF keeps_title /\ tender.title # <<>>
         THEN tender
         ELSE [tender EXCEPT !.title = Collapse(cells[2])]
    ELSE tender

\* lines 1339-1340 and 1427-1428: the tender number stands in for the title
NumberAsTitle(tender) ==
    IF tender.title = <<>> /\ tender.tender_number # <<>>
    THEN tender.tender_number
    ELSE tender.title

\* the title of _extract_tender_from_table_row(cells, ...)
DomRowTitle(cells) == NumberAsTitle(SecondCell(cells, DomFirstCell(cells), TRUE))

\* the title of _extract_tender_from_static_table_row(cells, ...)
StaticRowTitle(cells) ==
    NumberAsTitle(SecondCell(cells, StaticFirstCell(cells), FALSE))

\* lines 1249-1250: the test a title passes in _extract_tenders_from_single_table
QualityTitle(title) ==
    /\ Len(title) > MinTableTitleLen
    /\ ~\E w \in SkipWords : HasWord(Lower(title), w)

\* row.inner_text() of a row
RowText(cells) ==
    IF Len(cells) >= 2 THEN cells[1] \o <<" ">> \o cells[2] ELSE cells[1]

\* whether a data row gives a record, by extractor
RowEmitted(mode, cells) ==
    /\ Len(cells) >= 2
    /\ CASE mode = "dom_table" ->
              DomRowTitle(cells) # <<>> /\ QualityTitle(DomRowTitle(cells))
         [] mode = "dom_rows" ->
              /\ \E w \in RowKeywords : HasWord(Lower(Strip(RowText(cells))), w)
              /\ DomRowTitle(cells) # <<>>
         [] OTHER -> StaticRowTitle(cells) # <<>>

RowTitle(mode, cells) ==
    IF mode = "static_table" THEN StaticRowTitle(cells) ELSE DomRowTitle(cells)

\* the titles of the records an extractor emits for the data rows of a table
ExtractTable(mode, rows) ==
    LET kept == SelectSeq(rows, LAMBDA cells : RowEmitted(mode, cells))
    IN  [i \in DOMAIN kept |-> RowTitle(mode, kept[i])]

TableInit ==
    /\ ScraperIdle
    /\ pp = "idle"
    /\ dx = "idle"
    /\ br = "idle"
    /\ ap = "idle"
    /\ rq = "idle"
    /\ sc = "idle"
    /\ ep = "idle"
    /\ rs = "idle"
    /\ pw = "idle"
    /\ ti = "idle"
    /\ em = "idle"
    /\ \E mode \in {"dom_table", "dom_rows", "static_table"}, rows \in Tables :
          tb = [pc |-> "table", mode |-> mode, rows |-> rows, titles |-> <<>>]

ExtractTenders ==
    /\ tb.pc = "table"
    /\ tb' = [tb EXCEPT !.pc = "extracted",
                        !.titles = ExtractTable(tb.mode, tb.rows)]
    /\ UNCHANGED <<vars, pp, dx, br, ap, rq, sc, ep, rs, pw, ti, em>>

TableNext == ExtractTenders

SpecTable == TableInit /\ [][TableNext]_<<vars, parts>>

\* C19: no record that table extraction emits, in the rendered page or in
\* the static page, has a title shorter than 20 characters or a title that
\* holds one of the words menu, navigation, header, footer, sidebar.
C19_TableTitlesFiltered ==
    tb.pc = "extracted" =>
        \A i \in DOMAIN tb.titles :
            /\ Len(tb.titles[i]) >= 20
            /\ ~\E w \in {"menu", "navigation", "header", "footer", "sidebar"} :
                  HasWord(Lower(tb.titles[i]), w)

(***************************************************************************)
(* HybridTenderScorer.score_tender on its own (src/tools/scorer.py).       *)
(* The six rule scorers are taken by the values their return statements   *)
(* can give; the reply of the model is a text that _parse_ai_response     *)
(* reads.  Products with the weights are kept in hundredths and in tenths *)
(* and int() is the integer part.                                          *)
(***************************************************************************)
\* lines 262-285: the values _score_industry_match returns
IndustryScores == {10, 20, 15, 12, 5}

\* lines 287-311: the values _score_location_match returns
LocationScores == {7, 15, 12, 10, 3}

\* lines 313-348: the values _score_budget_match returns
BudgetScores == {10, 20, 5, 12, 8, 15}

\* a requirement, by the three tests of _score_technical_match: it names a
\* technology of the company (366-369), it holds a word of a core service
\* (372-375), it holds one of aws, azure, iso, pmi (378-379)
RequirementKinds ==
    [technology : BOOLEAN, service : BOOLEAN, certification : BOOLEAN]

\* lines 362-379: matches, each of the three tests adding one
RECURSIVE Matches(_, _)
Matches(requirements, i) ==
    IF i > Len(requirements) THEN 0
    ELSE (IF requirements[i].technology THEN 1 ELSE 0)
            + (IF requirements[i].service THEN 1 ELSE 0)
            + (IF requirements[i].certification THEN 1 ELSE 0)
            + Matches(requirements, i + 1)

\* lines 350-396: _score_technical_match
ScoreTechnicalMatch(requirements) ==
    IF requirements = <<>> THEN 10
    ELSE (Matches(requirements, 1) * 20) \div Len(requirements)

\* the technical scores of the tenders with n requirements
TechnicalScores(n) ==
    {ScoreTechnicalMatch(requirements) :
        requirements \in [1..n -> RequirementKinds]}

\* lines 398-443: _score_experience_match
ExperienceScores ==
    {7} \cup UNION {{(relevant * 15) \div total : relevant \in 0..total} :
                       total \in 1..MaxProjects}

\* lines 445-488: _score_certification_match for n requirements
CertificationScores(n) ==
    IF n = 0 THEN {5} ELSE {3} \cup {(matches * 10) \div n : matches \in 0..n}

\* lines 28-35: scoring_weights, in hundredths
WeightHundredths(key) ==
    CASE key = "industry_match" -> 20
      [] key = "location_match" -> 15
      [] key = "budget_match" -> 20
      [] key = "technical_match" -> 20
      [] key = "experience_match" -> 15
      [] OTHER -> 10

ScoreKeys ==
    {"industry_match", "location_match", "budget_match", "technical_match",
     "experience_match", "certification_match"}

RECURSIVE WeightedSum(_, _)
WeightedSum(scores, keys) ==
    IF keys = {} THEN 0
    ELSE LET key == CHOOSE x \in keys : TRUE
         IN  scores[key] * WeightHundredths(key)
                + WeightedSum(scores, keys \ {key})

\* variant of TotalScore: the components summed without their weights
TotalScoreUnweighted(scores) ==
    scores.industry_match + scores.location_match + scores.budget_match
       + scores.technical_match + scores.experience_match
       + scores.certification_match

\* lines 117-118: int(sum(scores[key] * scoring_weights[key]))
TotalScore(scores) == WeightedSum(scores, ScoreKeys) \div 100

\* the detailed scores one tender and one profile can give
DetailedScores ==
    UNION {[industry_match : IndustryScores,
            location_match : LocationScores,
            budget_match : BudgetScores,
            technical_match : TechnicalScores(n),
            experience_match : ExperienceScores,
            certification_match : CertificationScores(n)] :
           n \in 0..MaxRequirements}

DigitValue(c) ==
    CASE c = "0" -> 0 [] c = "1" -> 1 [] c = "2" -> 2 [] c = "3" -> 3
      [] c = "4" -> 4 [] c = "5" -> 5 [] c = "6" -> 6 [] c = "7" -> 7
      [] c = "8" -> 8 [] OTHER -> 9

\* int(digits)
RECURSIVE IntOf(_)
IntOf(digits) ==
    IF digits = <<>> THEN 0
    ELSE 10 * IntOf(SubSeq(digits, 1, Len(digits) - 1))
            + DigitValue(digits[Len(digits)])

ScoreLabel == <<"s", "c", "o", "r", "e", ":">>

\* the replies of the model
AiReplies ==
    {<<"S", "c", "o", "r", "e", ":", " ", "8", "5">>,
     <<"s", "c", "o", "r", "e", ":", "7">>,
     <<"S", "c", "o", "r", "e", ":", " ", "4", "0", "0">>,
     <<"S", "c", "o", "r", "e", ":", " ", "0">>,
     <<"S", "c", "o", "r", "e", ":", " ", "-", "5">>,
     <<"G", "o", "o", "d", " ", "f", "i", "t">>}

\* the first character after position i that is not whitespace
RECURSIVE SkipSpace(_, _)
SkipSpace(s, i) ==
    IF i <= Len(s) /\ s[i] \in Whitespace THEN SkipSpace(s, i + 1) ELSE i

\* the end of the run of digits that starts at position i
RECURSIVE DigitsEnd(_, _)
DigitsEnd(s, i) ==
    IF i < Len(s) /\ s[i + 1] \in Digits THEN DigitsEnd(s, i + 1) ELSE i

\* whether Score:\s*(\d+) matches at position i, letters of either case
ScoreMatchesAt(s, i) ==
    /\ i + Len(ScoreLabel) - 1 <= Len(s)
    /\ Lower(SubSeq(s, i, i + Len(ScoreLabel) - 1)) = ScoreLabel
    /\ SkipSpace(s, i + Len(ScoreLabel)) <= Len(s)
    /\ s[SkipSpace(s, i + Len(ScoreLabel))] \in Digits

\* lines 216-217: the score _parse_ai_response reads in a reply
ParseAiResponse(ai_response) ==
    IF \E i \in 1..Len(ai_response) : ScoreMatchesAt(ai_response, i)
    THEN LET i == CHOOSE j \in 1..Len(ai_response) :
                     /\ ScoreMatchesAt(ai_response, j)
                     /\ \A h \in 1..(j - 1) : ~ScoreMatchesAt(ai_response, h)
             from == SkipSpace(ai_response, i + Len(ScoreLabel))
         IN  IntOf(SubSeq(ai_response, from, DigitsEnd(ai_response, from)))
    ELSE DefaultAiScore

NoResult == [score |-> 0, scoring_method |-> "none"]

\* lines 229-260: _combine_scoring_results(rule_result, ai_result)
CombineScoringResults(rule_result, ai_result) ==
    IF ai_result = NoResult THEN rule_result
    ELSE [score |-> (rule_result.score * RuleTenths
                        + ai_result.score * AiTenths) \div 10,
          scoring_method |-> "hybrid"]

ScoreInit ==
    /\ ScraperIdle
    /\ pp = "idle"
    /\ dx = "idle"
    /\ br = "idle"
    /\ ap = "idle"
    /\ rq = "idle"
    /\ tb = "idle"
    /\ ep = "idle"
    /\ rs = "idle"
    /\ pw = "idle"
    /\ ti = "idle"
    /\ em = "idle"
    /\ \E client \in BOOLEAN, mapping \in BOOLEAN :
          sc = [pc |-> "rule", openai_client |-> client,
                tender_is_mapping |-> mapping,
                rule_based_result |-> NoResult, technical_match |-> 0,
                ai_result |-> NoResult,
                final_result |-> NoResult]

\* line 50: tender.get raises for a tender that is no mapping; lines 70-77
ScoreTenderExcept ==
    /\ sc.pc = "rule"
    /\ ~sc.tender_is_mapping
    /\ sc' = [sc EXCEPT !.pc = "returned",
                        !.final_result = [score |-> 0,
                                          scoring_method |-> "error"]]
    /\ UNCHANGED <<vars, pp, dx, br, ap, rq, tb, ep, rs, pw, ti, em>>

\* lines 79-138: _rule_based_scoring, a scorer raising included
RuleBasedScoring ==
    /\ sc.pc = "rule"
    /\ sc.tender_is_mapping
    /\ \/ \E scores \in DetailedScores :
             sc' = [sc EXCEPT !.pc = "ai",
                              !.technical_match = scores.technical_match,
                              !.rule_based_result =
                                  [score |-> TotalScore(scores),
                                   scoring_method |-> "rule_based"]]
       \/ sc' = [sc EXCEPT !.pc = "ai",
                           !.rule_based_result =
                               [score |-> 0,
                                scoring_method |-> "rule_based_error"]]
    /\ UNCHANGED <<vars, pp, dx, br, ap, rq, tb, ep, rs, pw, ti, em>>

\* lines 56-61 and 141-174: _ai_powered_scoring with a reply, or failing
AiPoweredScoring ==
    /\ sc.pc = "ai"
    /\ sc.openai_client
    /\ \/ \E ai_response \in AiReplies :
             sc' = [sc EXCEPT !.pc = "combine",
                              !.ai_result =
                                  [score |-> ParseAiResponse(ai_response),
                                   scoring_method |-> "ai_powered"]]
       \/ sc' = [sc EXCEPT !.pc = "combine", !.ai_result = NoResult]
    /\ UNCHANGED <<vars, pp, dx, br, ap, rq, tb, ep, rs, pw, ti, em>>

\* lines 56-57: no client, ai_result stays None
AiAbsent ==
    /\ sc.pc = "ai"
    /\ ~sc.openai_client
    /\ sc' = [sc EXCEPT !.pc = "combine"]
    /\ UNCHANGED <<vars, pp, dx, br, ap, rq, tb, ep, rs, pw, ti, em>>

\* lines 63-67: combine and return
CombineAndReturn ==
    /\ sc.pc = "combine"
    /\ sc' = [sc EXCEPT !.pc = "returned",
                        !.final_result =
                            CombineScoringResults(sc.rule_based_result,
                                                  sc.ai_result)]
    /\ UNCHANGED <<vars, pp, dx, br, ap, rq, tb, ep, rs, pw, ti, em>>

ScoreNext ==
    \/ ScoreTenderExcept
    \/ RuleBasedScoring
    \/ AiPoweredScoring
    \/ AiAbsent
    \/ CombineAndReturn

SpecScore == ScoreInit /\ [][ScoreNext]_<<vars, parts>>

\* C20: for every tender and profile, and whether AI scoring is absent,
\* fails or succeeds with any reply, the score of the mapping that
\* score_tender returns is an integer between 0 and 100.
C20_ScoreInRange ==
    sc.pc = "returned" =>
        /\ sc.final_result.score \in Nat
        /\ sc.final_result.score <= 100

(***************************************************************************)
(* _scrape_with_api_endpoint on its own: the GET, the POST and what is    *)
(* returned.  A response is a status with a body, or the request raising. *)
(***************************************************************************)
NotJson == [t |-> "text", items |-> <<>>]

\* the bodies a response to the request of method tag can carry
EndpointBodies(tag) ==
    {NotJson, JsonList(<<>>),
     JsonList(<<Item("dict", Str(Rep("t", 8)), tag)>>)}

Raised == [raised |-> TRUE, status_code |-> 0, body |-> NotJson]

Responses(tag) ==
    {Raised}
    \cup {[raised |-> FALSE, status_code |-> s, body |-> b] :
             s \in {200, 201, 404, 500}, b \in EndpointBodies(tag)}

\* variant of JsonFrom200 that takes a JSON body of any status
JsonFromAnyStatus(response) == response.body # NotJson

\* lines 407-410 and 416-419: status 200 and response.json() not raising
JsonFrom200(response) ==
    response.status_code = 200 /\ response.body # NotJson

EndpointInit ==
    /\ ScraperIdle
    /\ pp = "idle"
    /\ dx = "idle"
    /\ br = "idle"
    /\ ap = "idle"
    /\ rq = "idle"
    /\ tb = "idle"
    /\ sc = "idle"
    /\ rs = "idle"
    /\ pw = "idle"
    /\ ti = "idle"
    /\ em = "idle"
    /\ ep = [pc |-> "get", sent |-> <<>>, got |-> Raised, response |-> Raised,
             out |-> <<>>]

\* lines 406-412: session.get, and the return of what its body parses to
SessionGet ==
    /\ ep.pc = "get"
    /\ \E response \in Responses("get") :
          ep' = [ep EXCEPT
                   !.sent = Append(@, "GET"),
                   !.got = response,
                   !.response = response,
                   !.pc = IF response.raised \/ JsonFrom200(response)
                          THEN "returned" ELSE "post",
                   !.out = IF ~response.raised /\ JsonFrom200(response)
                           THEN ParseApiData(response.body) ELSE <<>>]
    /\ UNCHANGED <<vars, pp, dx, br, ap, rq, tb, sc, rs, pw, ti, em>>

\* lines 414-427: session.post, the return of its parse, [] otherwise
SessionPost ==
    /\ ep.pc = "post"
    /\ \E response \in Responses("post") :
          ep' = [ep EXCEPT
                   !.sent = Append(@, "POST"),
                   !.response = response,
                   !.pc = "returned",
                   !.out = IF ~response.raised /\ JsonFrom200(response)
                           THEN ParseApiData(response.body) ELSE <<>>]
    /\ UNCHANGED <<vars, pp, dx, br, ap, rq, tb, sc, rs, pw, ti, em>>

EndpointNext == SessionGet \/ SessionPost

SpecEndpoint == EndpointInit /\ [][EndpointNext]_<<vars, parts>>

PostIssued == \E i \in DOMAIN ep.sent : ep.sent[i] = "POST"

InnerSources == <<"tables", "class_elements", "text_elements", "json_ld">>

StaticPages == [{InnerSources[i] : i \in 1..4} -> 0..MaxFound]

\* the records an inner source makes of a page
Found(page, source) ==
    [i \in 1..page[source] |-> [source |-> source, nth |-> i]]

\* what session.get gives: an exception, or a status
FetchOutcomes == {0, 200, 204, 300, 404, 500}

\* variant of IfNotTenders: every inner source is consulted
IfNotTendersAlways(tenders) == TRUE

\* lines 299, 309 and 320: if not tenders
IfNotTenders(tenders) == tenders = <<>>

\* line 283: raise_for_status() raises for the statuses 400 to 599
RaiseForStatus(status_code) == status_code \in 400..599

RequestsInit ==
    /\ ScraperIdle
    /\ pp = "idle"
    /\ dx = "idle"
    /\ br = "idle"
    /\ ap = "idle"
    /\ rq = "idle"
    /\ tb = "idle"
    /\ sc = "idle"
    /\ ep = "idle"
    /\ pw = "idle"
    /\ ti = "idle"
    /\ em = "idle"
    /\ \E page \in StaticPages :
          rs = [pc |-> "fetch", page |-> page, status_code |-> 0,
                consulted |-> <<>>, tenders |-> <<>>, out |-> <<>>]

\* lines 282-283 and 334-336: the fetch; 0 stands for session.get raising
Fetch ==
    /\ rs.pc = "fetch"
    /\ \E outcome \in FetchOutcomes :
          rs' = [rs EXCEPT !.status_code = outcome,
                           !.pc = IF outcome = 0 \/ RaiseForStatus(outcome)
                                  THEN "returned" ELSE "tables"]
    /\ UNCHANGED <<vars, pp, dx, br, ap, rq, tb, sc, ep, pw, ti, em>>

\* one inner source, consulted or passed over
Consult(idx, next) ==
    /\ rs' = IF idx = 1 \/ IfNotTenders(rs.tenders)
             THEN [rs EXCEPT !.pc = next,
                             !.consulted = Append(@, InnerSources[idx]),
                             !.tenders = @ \o Found(rs.page, InnerSources[idx])]
             ELSE [rs EXCEPT !.pc = next]
    /\ UNCHANGED <<vars, pp, dx, br, ap, rq, tb, sc, ep, pw, ti, em>>

\* lines 290-296
StaticTables ==
    /\ rs.pc = "tables"
    /\ Consult(1, "class_elements")

\* lines 298-306
ClassElements ==
    /\ rs.pc = "class_elements"
    /\ Consult(2, "text_elements")

\* lines 308-317
TextElements ==
    /\ rs.pc = "text_elements"
    /\ Consult(3, "json_ld")

\* lines 319-330
JsonLd ==
    /\ rs.pc = "json_ld"
    /\ Consult(4, "return")

\* line 332
ReturnTenders ==
    /\ rs.pc = "return"
    /\ rs' = [rs EXCEPT !.pc = "returned", !.out = rs.tenders]
    /\ UNCHANGED <<vars, pp, dx, br, ap, rq, tb, sc, ep, pw, ti, em>>

RequestsNext ==
    \/ Fetch
    \/ StaticTables
    \/ ClassElements
    \/ TextElements
    \/ JsonLd
    \/ ReturnTenders

SpecRequests == RequestsInit /\ [][RequestsNext]_<<vars, parts>>

\* the inner sources in the order of the claim, and the first of them that
\* finds a record in the page (5 when none does)
FirstYielding ==
    IF rs.page["tables"] > 0 THEN 1
    ELSE IF rs.page["class_elements"] > 0 THEN 2
    ELSE IF rs.page["text_elements"] > 0 THEN 3
    ELSE IF rs.page["json_ld"] > 0 THEN 4 ELSE 5

InOrder ==
    /\ rs.consulted =
          SubSeq(<<"tables", "class_elements", "text_elements", "json_ld">>,
                 1, Len(rs.consulted))
    /\ Len(rs.consulted) <= FirstYielding
    /\ \A i, j \in DOMAIN rs.tenders :
          rs.tenders[i].source = rs.tenders[j].source
    /\ rs.pc = "returned" =>
          \/ rs.status_code \in {0, 404, 500} /\ rs.consulted = <<>>
                /\ rs.out = <<>>
          \/ /\ rs.status_code \notin {0, 404, 500}
             /\ Len(rs.consulted) = Min(4, FirstYielding)
             /\ Len(rs.out) = IF FirstYielding = 5 THEN 0
                              ELSE rs.page[rs.consulted[FirstYielding]]
             /\ \A i \in DOMAIN rs.out :
                   rs.out[i].source = rs.consulted[FirstYielding]

\* C22 as stated: the order and the single source, and an empty result for
\* a fetch that raised or gave a status outside 200..299.
C22_EveryNon2xxEmpty ==
    /\ InOrder
    /\ (rs.pc = "returned" /\ rs.status_code \notin 200..299) => rs.out = <<>>

\* C22: the inner sources are consulted in the order tables, class
\* elements, text elements, JSON-LD, source k only if sources 1..k-1 made
\* no record, so that the records returned all come from one source; a
\* fetch that raises or gives a status from 400 to 599 returns the empty
\* list with no source consulted.
C22_FirstYieldingSource == InOrder

C22_Witness ==
    /\ rs.pc = "returned"
    /\ rs.status_code = 200
    /\ rs.page["tables"] = 0
    /\ rs.page["class_elements"] = 0
    /\ rs.page["json_ld"] > 0
    /\ rs.consulted = <<"tables", "class_elements", "text_elements">>
    /\ Len(rs.out) = MaxFound

(***************************************************************************)
(* The navigation loop and the selector loop of _scrape_with_playwright   *)
(* on their own (lines 161-227).  A page is taken by what each selector   *)
(* of tender_selectors finds in it: nothing, elements whose titles have   *)
(* at most 20 characters, or elements whose titles are longer.            *)
(***************************************************************************)
\* the selectors whose finds vary from page to page; the rows that tr finds
\* are the rows of the tables
FreeSelectors ==
    {TenderSelectors[i] : i \in 1..Len(TenderSelectors)} \ {"tr"}

RenderedPages ==
    UNION {{[s \in {TenderSelectors[i] : i \in 1..Len(TenderSelectors)} |->
                IF s \in matching THEN c[s]
                ELSE IF s = "tr" /\ "table" \in matching THEN c["table"]
                ELSE "nothing"] :
              c \in [matching -> {"short", "long"}]} :
           matching \in {m \in SUBSET FreeSelectors :
                            Cardinality(m) <= MaxMatching}}

\* lines 196-221: the records one turn of the loop adds for a selector that
\* finds content; the single-table extractor and the class selectors keep
\* titles longer than 20 characters, the row extractor keeps every title
Extracted(selector, content) ==
    IF content = "nothing" THEN <<>>
    ELSE IF selector = "table" \/ selector \in SelectiveSelectors
         THEN IF content = "long"
              THEN <<[selector |-> selector, title |-> "long"]>> ELSE <<>>
         ELSE IF selector = "tr"
              THEN <<[selector |-> selector, title |-> content]>>
              ELSE <<>>

\* variant of LastAttempt: the last failure is swallowed like the others
LastAttemptNever(attempt) == FALSE

\* line 166: if attempt == config.SCRAPING_MAX_RETRIES - 1
LastAttempt(attempt) == attempt = SCRAPING_MAX_RETRIES - 1

PlaywrightInit ==
    /\ ScraperIdle
    /\ pp = "idle"
    /\ dx = "idle"
    /\ br = "idle"
    /\ ap = "idle"
    /\ rq = "idle"
    /\ tb = "idle"
    /\ sc = "idle"
    /\ ep = "idle"
    /\ rs = "idle"
    /\ ti = "idle"
    /\ em = "idle"
    /\ \E page \in RenderedPages :
          pw = [pc |-> "goto", page |-> page, attempt |-> 0, gotos |-> <<>>,
                sel |-> 1, probed |-> <<>>, selector_raised |-> FALSE,
                tenders |-> <<>>, out |-> "none"]

\* lines 162-170: one turn of for attempt in range(SCRAPING_MAX_RETRIES)
Goto ==
    /\ pw.pc = "goto"
    /\ \/ pw' = [pw EXCEPT !.pc = "select", !.gotos = Append(@, "ok")]
       \/ pw' = [pw EXCEPT
                   !.gotos = Append(@, "failed"),
                   !.attempt = pw.attempt + 1,
                   !.pc = IF LastAttempt(pw.attempt) THEN "except"
                          ELSE IF pw.attempt + 1 < SCRAPING_MAX_RETRIES
                               THEN "goto" ELSE "select"]
    /\ UNCHANGED <<vars, pp, dx, br, ap, rq, tb, sc, ep, rs, ti, em>>

\* lines 193-224: one turn of for selector in tender_selectors
ProbeSelector ==
    /\ pw.pc = "select"
    /\ LET selector == TenderSelectors[pw.sel]
           leaves(tenders) ==
               IF tenders # <<>> \/ pw.sel = Len(TenderSelectors)
               THEN "close" ELSE "select"
       IN  \/ pw' = [pw EXCEPT
                       !.probed = Append(@, selector),
                       !.tenders = @ \o Extracted(selector, pw.page[selector]),
                       !.sel = pw.sel + 1,
                       !.pc = leaves(Extracted(selector, pw.page[selector]))]
           \/ pw' = [pw EXCEPT
                       !.probed = Append(@, selector),
                       !.selector_raised = TRUE,
                       !.sel = pw.sel + 1,
                       !.pc = leaves(<<>>)]
    /\ UNCHANGED <<vars, pp, dx, br, ap, rq, tb, sc, ep, rs, ti, em>>

\* lines 226-227: browser.close(); return tenders
CloseAndReturn ==
    /\ pw.pc = "close"
    /\ pw' = [pw EXCEPT !.pc = "returned", !.out = pw.tenders]
    /\ UNCHANGED <<vars, pp, dx, br, ap, rq, tb, sc, ep, rs, ti, em>>

\* lines 229-231: except Exception: return []
PlaywrightExcept ==
    /\ pw.pc = "except"
    /\ pw' = [pw EXCEPT !.pc = "returned", !.out = <<>>]
    /\ UNCHANGED <<vars, pp, dx, br, ap, rq, tb, sc, ep, rs, ti, em>>

PlaywrightNext ==
    \/ Goto
    \/ ProbeSelector
    \/ CloseAndReturn
    \/ PlaywrightExcept

SpecPlaywright == PlaywrightInit /\ [][PlaywrightNext]_<<vars, parts>>

\* C23: navigation is attempted at most SCRAPING_MAX_RETRIES (3) times, an
\* attempt follows only failed attempts, and when all three fail the call
\* returns the empty list, without raising and with no selector probed.
C23_BoundedNavigation ==
    /\ Len(pw.gotos) <= 3
    /\ \A i \in DOMAIN pw.gotos : i < Len(pw.gotos) => pw.gotos[i] = "failed"
    /\ (pw.gotos # <<>> /\ pw.gotos[Len(pw.gotos)] = "ok") => pw.pc # "goto"
    /\ pw.gotos = <<"failed", "failed", "failed">> =>
          /\ pw.pc \in {"except", "returned"}
          /\ pw.probed = <<>>
          /\ pw.pc = "returned" => pw.out = <<>>
    /\ pw.probed # <<>> => pw.gotos[Len(pw.gotos)] = "ok"

C23_Witness ==
    /\ pw.pc = "returned"
    /\ pw.gotos = <<"failed", "failed", "failed">>
    /\ pw.out = <<>>

\* the place in the list of the first selector that finds elements with
\* titles longer than 20 characters, 0 when none does
FirstPlausible ==
    IF \E i \in 1..13 : pw.page[TenderSelectors[i]] = "long"
    THEN CHOOSE i \in 1..13 :
            /\ pw.page[TenderSelectors[i]] = "long"
            /\ \A j \in 1..(i - 1) : pw.page[TenderSelectors[j]] # "long"
    ELSE 0

\* C25: the selectors are probed in list order, and the call returns the
\* records of the first selector that finds plausible tender elements
\* (titles longer than 20 characters) and of no other, whichever selector
\* of the list that is.
C25_FirstPlausibleSupplies ==
    /\ pw.probed = SubSeq(TenderSelectors, 1, Len(pw.probed))
    /\ (pw.pc = "returned" /\ ~pw.selector_raised
          /\ pw.gotos # <<>> /\ pw.gotos[Len(pw.gotos)] = "ok") =>
          IF FirstPlausible = 0 THEN pw.out = <<>>
          ELSE /\ pw.out # <<>>
               /\ \A i \in DOMAIN pw.out :
                     /\ pw.out[i].selector = TenderSelectors[FirstPlausible]
                     /\ pw.out[i].title = "long"

(***************************************************************************)
(* _extract_title_from_api on its own, over items that hold some of the   *)
(* title aliases, and the test of _parse_api_data on the title.           *)
(***************************************************************************)
TitleValues ==
    {Str(<<>>), Str(Rep("f", 5)), Str(Rep("s", 6)),
     Str(<<" ", " ">> \o Rep("p", 4) \o <<" ">>),
     Str(Rep("l", 203)), Num(Rep("7", 6))}

AliasItems ==
    UNION {[held -> TitleValues] :
              held \in {h \in SUBSET {TitleFields[i] : i \in 1..Len(TitleFields)} :
                           Cardinality(h) <= MaxAliases}}

TitleInit ==
    /\ ScraperIdle
    /\ pp = "idle"
    /\ dx = "idle"
    /\ br = "idle"
    /\ ap = "idle"
    /\ rq = "idle"
    /\ tb = "idle"
    /\ sc = "idle"
    /\ ep = "idle"
    /\ rs = "idle"
    /\ pw = "idle"
    /\ em = "idle"
    /\ \E item \in AliasItems :
          ti = [pc |-> "item", item |-> item, title |-> <<>>,
                tenders |-> <<>>]

\* lines 981 and 1002-1003: the title of the item, and the tender when the
\* title is not empty
TitleOfItem ==
    /\ ti.pc = "item"
    /\ ti' = [ti EXCEPT
                !.pc = "parsed",
                !.title = ExtractTitleFromApi(ti.item),
                !.tenders = IF ExtractTitleFromApi(ti.item) # <<>>
                            THEN <<[title |-> ExtractTitleFromApi(ti.item)]>>
                            ELSE <<>>]
    /\ UNCHANGED <<vars, pp, dx, br, ap, rq, tb, sc, ep, rs, pw, em>>

TitleNext == TitleOfItem

SpecTitle == TitleInit /\ [][TitleNext]_<<vars, parts>>

\* whether the alias at place i of the order holds a value whose trimmed
\* string form has at least n characters
Qualifies(i, n) ==
    LET alias == <<"title", "name", "subject", "heading", "tender_title",
                   "opportunity_title">>[i]
    IN  /\ alias \in DOMAIN ti.item
        /\ Len(Strip(ti.item[alias].v)) >= n

\* the title is that of the first alias qualifying with n characters, cut
\* to 200, and there is a tender exactly when some alias qualifies
TitleIsFirstWith(n) ==
    ti.pc = "parsed" =>
        IF \E i \in 1..6 : Qualifies(i, n)
        THEN LET i == CHOOSE j \in 1..6 :
                         Qualifies(j, n) /\ \A h \in 1..(j - 1) : ~Qualifies(h, n)
                 alias == <<"title", "name", "subject", "heading",
                            "tender_title", "opportunity_title">>[i]
                 trimmed == Strip(ti.item[alias].v)
             IN  /\ ti.title = SubSeq(trimmed, 1, Min(200, Len(trimmed)))
                 /\ Len(ti.tenders) = 1
        ELSE ti.title = <<>> /\ ti.tenders = <<>>

\* C24: the title of an API item is the value of the first alias, in the
\* order title, name, subject, heading, tender_title, opportunity_title,
\* whose trimmed string form has at least 5 characters, cut to 200; an item
\* with no such alias yields no tender.
C24_FirstAliasOfFive == TitleIsFirstWith(5)

\* C26: the technical-requirements component that _score_technical_match
\* returns is an integer from 0 to 20.
C26_TechnicalWithinTwenty ==
    sc.rule_based_result.scoring_method = "rule_based" =>
        sc.technical_match \in 0..20

\* C30: when AI scoring is unavailable or fails, the score that
\* score_tender returns is at most 25, below the qualification threshold
\* of 30 of the workflow and below the default SCORING_THRESHOLD of 50.
C30_RuleScoreAtMost25 ==
    (sc.pc = "returned" /\ sc.ai_result = NoResult) =>
        /\ sc.final_result.score \in 0..25
        /\ sc.final_result.score < 30
        /\ sc.final_result.score < 50
        /\ sc.final_result.scoring_method # "hybrid"

\* AI scoring failed and the rule-based score is the largest there is
C30_Witness ==
    /\ sc.pc = "returned"
    /\ sc.openai_client
    /\ sc.ai_result = NoResult
    /\ sc.final_result = [score |-> 25, scoring_method |-> "rule_based"]

(***************************************************************************)
(* EmailSender.send_email_multiple on its own (src/tools/email_sender.py). *)
(* Messages are the strings of the code, character by character, since    *)
(* the count of a result depends on the words it holds.                    *)
(***************************************************************************)
Addresses == {<<"a", "@", "x">>, <<"b", "@", "x">>}

RecipientLists == UNION {[1..n -> Addresses] : n \in 0..MaxRecipients}

\* line 186
ResendMessage(to) ==
    <<"E", "m", "a", "i", "l", " ", "s", "e", "n", "t", " ", "s", "u", "c",
      "c", "e", "s", "s", "f", "u", "l", "l", "y", " ", "v", "i", "a", " ",
      "R", "e", "s", "e", "n", "d", ".", "c", "o", "m", " ", "t", "o", " ">>
       \o to \o <<" ", "(", "I", "D", ":", " ", "N", "/", "A", ")">>

\* line 200
SmtpMessage(to) ==
    <<"E", "m", "a", "i", "l", " ", "q", "u", "e", "u", "e", "d", " ", "f",
      "o", "r", " ", "S", "M", "T", "P", " ", "d", "e", "l", "i", "v", "e",
      "r", "y", " ", "t", "o", " ">>
       \o to

\* line 151
FallbackMessage(to) ==
    <<"E", "m", "a", "i", "l", " ", "q", "u", "e", "u", "e", "d", " ", "f",
      "o", "r", " ", "d", "e", "l", "i", "v", "e", "r", "y", " ", "t", "o",
      " ">>
       \o to
       \o
    <<" ", "(", "d", "e", "l", "i", "v", "e", "r", "y", " ", "m", "e", "t",
      "h", "o", "d", ":", " ", "f", "a", "l", "l", "b", "a", "c", "k", ")">>

Successfully == <<"s", "u", "c", "c", "e", "s", "s", "f", "u", "l", "l", "y">>

Queued == <<"q", "u", "e", "u", "e", "d">>

\* needle in haystack
Within(needle, haystack) ==
    \E i \in 1..(Len(haystack) - Len(needle) + 1) :
        SubSeq(haystack, i, i + Len(needle) - 1) = needle

\* line 95: "successfully" in result.lower() or "queued" in result.lower()
CountsAsSent(message) ==
    Within(Successfully, Lower(message)) \/ Within(Queued, Lower(message))

\* variant of FallsBack: SMTP is tried whatever Resend gave
FallsBackAlways(message) == TRUE

\* lines 132-140: the SMTP fallback is reached when Resend returned nothing
FallsBack(message) == message = <<>>

EmailInit ==
    /\ ScraperIdle
    /\ pp = "idle"
    /\ dx = "idle"
    /\ br = "idle"
    /\ ap = "idle"
    /\ rq = "idle"
    /\ tb = "idle"
    /\ sc = "idle"
    /\ ep = "idle"
    /\ rs = "idle"
    /\ pw = "idle"
    /\ ti = "idle"
    /\ \E client \in BOOLEAN, recipients \in RecipientLists :
          em = [pc |-> "loop", resend_client |-> client,
                recipients |-> recipients, at |-> 1, result |-> <<>>,
                attempts |-> <<>>, successful_sends |-> 0,
                failed_sends |-> 0, results |-> <<>>, summary |-> <<>>]

\* lines 92-94 and 132-140: the next recipient, and Resend for it when the
\* client is there: it returns its message or raises
SendViaResend ==
    /\ em.pc = "loop"
    /\ em.at <= Len(em.recipients)
    /\ LET to == em.recipients[em.at]
       IN  IF em.resend_client
           THEN \E sent \in BOOLEAN :
                   em' = [em EXCEPT
                            !.pc = "after_resend",
                            !.attempts = Append(@, [to |-> em.at,
                                                    by |-> "resend",
                                                    sent |-> sent]),
                            !.result = IF sent THEN ResendMessage(to)
                                       ELSE <<>>]
           ELSE em' = [em EXCEPT !.pc = "after_resend", !.result = <<>>]
    /\ UNCHANGED <<vars, pp, dx, br, ap, rq, tb, sc, ep, rs, pw, ti>>

\* lines 142-152: the SMTP fallback when Resend returned nothing, and the
\* message of the last resort when SMTP raises
SendViaSmtp ==
    /\ em.pc = "after_resend"
    /\ LET to == em.recipients[em.at]
       IN  IF FallsBack(em.result)
           THEN \E sent \in BOOLEAN :
                   em' = [em EXCEPT
                            !.pc = "count",
                            !.attempts = Append(@, [to |-> em.at,
                                                    by |-> "smtp",
                                                    sent |-> sent]),
                            !.result = IF sent THEN SmtpMessage(to)
                                       ELSE FallbackMessage(to)]
           ELSE em' = [em EXCEPT !.pc = "count"]
    /\ UNCHANGED <<vars, pp, dx, br, ap, rq, tb, sc, ep, rs, pw, ti>>

\* lines 95-100: the result is counted
CountResult ==
    /\ em.pc = "count"
    /\ em' = [em EXCEPT
                !.pc = "loop",
                !.at = em.at + 1,
                !.successful_sends =
                    IF CountsAsSent(em.result) THEN @ + 1 ELSE @,
                !.failed_sends =
                    IF CountsAsSent(em.result) THEN @ ELSE @ + 1,
                !.results = Append(@, [to |-> em.at,
                                       sent |-> CountsAsSent(em.result)])]
    /\ UNCHANGED <<vars, pp, dx, br, ap, rq, tb, sc, ep, rs, pw, ti>>

\* lines 106-109: the summary with the two counts
ReturnSummary ==
    /\ em.pc = "loop"
    /\ em.at > Len(em.recipients)
    /\ em' = [em EXCEPT !.pc = "returned",
                        !.summary = <<em.successful_sends, em.failed_sends>>]
    /\ UNCHANGED <<vars, pp, dx, br, ap, rq, tb, sc, ep, rs, pw, ti>>

EmailNext ==
    \/ SendViaResend
    \/ SendViaSmtp
    \/ CountResult
    \/ ReturnSummary

SpecEmail == EmailInit /\ [][EmailNext]_<<vars, parts>>

\* the attempts made for the recipient at place i
AttemptsFor(i) ==
    SelectSeq(em.attempts, LAMBDA attempt : attempt.to = i)

\* C27: send_email_multiple attempts every recipient once, in list order,
\* whatever happened to the earlier ones; for a recipient Resend comes
\* before SMTP, and SMTP is tried only when Resend is not configured or
\* failed; the two counts reported add up to the number of recipients.
C27_EveryRecipientOnce ==
    /\ \A i, j \in DOMAIN em.attempts :
          i < j => em.attempts[i].to <= em.attempts[j].to
    /\ \A i \in DOMAIN em.results :
          /\ em.results[i].to = i
          /\ IF em.resend_client
             THEN \/ AttemptsFor(i) =
                        <<[to |-> i, by |-> "resend", sent |-> TRUE]>>
                  \/ \E sent \in BOOLEAN :
                        AttemptsFor(i) =
                           <<[to |-> i, by |-> "resend", sent |-> FALSE],
                             [to |-> i, by |-> "smtp", sent |-> sent]>>
             ELSE \E sent \in BOOLEAN :
                     AttemptsFor(i) = <<[to |-> i, by |-> "smtp", sent |-> sent]>>
    /\ em.pc = "returned" =>
          /\ Len(em.results) = Len(em.recipients)
          /\ em.summary[1] + em.summary[2] = Len(em.recipients)
          /\ em.summary[1] = Len(em.recipients)

C27_Witness ==
    /\ em.pc = "returned"
    /\ Len(em.recipients) = 2
    /\ em.attempts = <<[to |-> 1, by |-> "resend", sent |-> FALSE],
                       [to |-> 1, by |-> "smtp", sent |-> FALSE],
                       [to |-> 2, by |-> "resend", sent |-> TRUE]>>
    /\ em.summary = <<2, 0>>

\* the number of invocations of a strategy in the call
Times(strategy) == Len(SelectSeq(trace, LAMBDA e : e.s = strategy))

\* C28: when a strategy hands back a non-empty list and post-processing
\* discards every record of it (titles missing or shorter than 5
\* characters), scrape_web returns the empty list at once: no strategy is
\* invoked after it and the sample tenders do not stand in, USE_SAMPLE_DATA
\* or not.
C28_EmptiedListReturned ==
    /\ \A i \in DOMAIN trace :
          trace[i].out = "nonempty" => (i = Len(trace) /\ Done)
    /\ (/\ Done
        /\ trace # <<>>
        /\ trace[Len(trace)].out = "nonempty"
        /\ \A i \in DOMAIN raw.names : raw.names[i] \in {"short", "blank"}) =>
          /\ returned = "list"
          /\ result = <<>>

\* the RSS strategy handed back one record with a title of blanks, sample
\* mode is on, and the strategies after RSS were never invoked
C28_Witness ==
    /\ Done
    /\ use_sample_data
    /\ trace[Len(trace)] = [s |-> "rss", out |-> "nonempty", stage |-> "rss"]
    /\ raw.names = <<"blank">>
    /\ result = <<>>

\* C29: in one call the API-endpoint strategy and the RSS strategy are
\* invoked at most once each, and Playwright, Selenium, requests and API
\* discovery at most twice each; a strategy is invoked twice only when the
\* scraper_type names it, its first invocation, at the explicit stage,
\* yielded nothing, and the generic loop reached it again.
C29_InvocationCounts ==
    /\ Times("api_endpoint") <= 1
    /\ Times("rss") <= 1
    /\ \A g \in {"playwright", "selenium", "requests", "api_endpoints"} :
          /\ Times(g) <= 2
          /\ Times(g) = 2 =>
                LET both == SelectSeq(trace, LAMBDA e : e.s = g)
                IN  /\ site_config.scraper_type = g
                    /\ both[1].stage = "explicit"
                    /\ both[1].out = "empty"
                    /\ both[2].stage = "generic"

C29_Witness ==
    /\ Done
    /\ Times("selenium") = 2
    /\ Times("playwright") = 1
    /\ result # <<>>

====
